---- MODULE Spec2Model ----
(***************************************************************************)
(* State-machine model of the LatteStream subscriber client:               *)
(*   packages/client/src/connection.ts   (Connection)                      *)
(*   packages/client/src/discovery.ts    (DiscoveryService)                *)
(*   packages/client/src/performance.ts  (debounce, MessageQueue)          *)
(*   packages/client/src/client.ts       (LatteStream channel registry)    *)
(*   packages/client/src/channel.ts      (Channel, PrivateChannel)         *)
(*   packages/client/src/auth.ts         (Authorizer, getChannelType)      *)
(* Every handler of the event loop (caller API call, timer callback,       *)
(* transport event, promise continuation) is one action.  Methods are      *)
(* operators from a snapshot record of the fields to the snapshot after    *)
(* the call, so that a handler is the composition of the calls it makes.   *)
(***************************************************************************)
EXTENDS Integers, Sequences, FiniteSets, TLC

\* ------------------------------------------------------------------ bounds
MaxSockets == 2      \* transports alive at the same time
MaxDisc == 2         \* discover() calls in flight at the same time
MaxLeak == 1         \* pending timers whose handle was overwritten, per kind
MaxQueue == 2        \* frames waiting in the MessageQueue
MaxPool == 2         \* PresenceMember objects resting in the memberPool
MaxFrames == 3       \* channel events the server sends in a run
MaxExtra == 1        \* bytes a frame header declares beyond its payload
MaxBindings == 3     \* bind() calls in force on one event name
MaxRequests == 2     \* publisher API requests in flight at the same time
MaxTicks == 2        \* request timeouts that pass in a run
MaxAttemptsAuto == 3 \* largest maxReconnectionAttempts option of SpecAuto
MaxAttemptsOpt == 1  \* largest maxReconnectionAttempts option of Spec
RandDen == 5         \* Math.random() is drawn from {0/RandDen .. (RandDen-1)/RandDen}

\* ------------------------------------------------------- program constants
DefaultMaxAttempts == 6
DefaultMaxGap == 30
DefaultBaseDelay == 1000
DefaultMultiplier == 2
DefaultBatchSize == 10
PoolCap == 50

MaxChannelNameLength == 200
DefaultMaxConnections == 20
DefaultMaxAge == 300000
DefaultTimeout == 30000

ChannelNames == {"news"}
PrivateNames == {"private-a"}
PresenceNames == {"presence-room"}
MemberIds == {"u1", "u2"}
Infos == {"a", "b"}
\* the value of socketId, and of an authorization, that belongs to a
\* connection that is gone: ids of closed connections are never compared
\* with each other, only with the ids of the live ones
Gone == -1
SockIds == 1..MaxSockets
States == {"disconnected", "connecting", "connected", "unavailable", "failed"}
Credentials == {"lspc_", "lspk_", "appkey"}
TimerKinds == {"reconnect", "activity", "pong"}

VARIABLES
  appKeyOrToken,     \* Connection.appKeyOrToken, reduced to its prefix
  options,           \* Connection.options (the reconnection options)
  state,             \* Connection.state
  ws,                \* Connection.ws: 0 is null, else the transport referenced
  reconnectAttempts, \* Connection.reconnectAttempts
  reconnectTimer,    \* Connection.reconnectTimer holds a pending timer
  activityTimer,     \* Connection.activityTimer holds a pending timer
  pongTimer,         \* Connection.pongTimer holds a pending timer
  leaked,            \* pending timers no field refers to any more, per kind
  socketId,          \* Connection.socketId: 0 is null, Gone a past connection's
  debounceTimeout,   \* the `timeout` of debounce(): a call is pending
  discoveryToken,    \* Connection.discoveryToken is set
  discCalls,         \* number of discover() calls in flight
  sockets,           \* the transports that are connecting or open
  closing,           \* transports closed by close() whose close event is due
  messageQueue,      \* MessageQueue: [queue, flushTimer]
  channels,          \* LatteStream.channels in insertion order
  authCalls,         \* authorize() calls in flight: [channel, sid]
  emitted,           \* history: the last event a channel emitted to its listeners
  delays,            \* history: delays scheduled since the counter was 0
  history,           \* whether this run records `quiet`
  quiet,             \* history: why the client has to stay put, or "none"
  triggered,         \* history: the last trigger() call and what it returned
  members,           \* PresenceChannel.members in insertion order: [id, obj]
  myId,              \* PresenceChannel.myId: "" is null
  objects,           \* the PresenceMember objects, by reference
  memberPool,        \* PresenceChannel.memberPool: ObjectPool.pool
  emits,             \* history: parity of the member events emitted
  received,          \* history: number of channel events received so far
  decoding,          \* onmessage calls suspended in Blob.arrayBuffer()
  dispatched,        \* history: the frames handed to channel listeners
  errors,            \* history: parity of the calls of onError
  notified,          \* history: the calls of onStateChange, where observed
  call               \* a call of a function of the SDK: arguments and result

vars == <<appKeyOrToken, options, state, ws, reconnectAttempts, reconnectTimer,
          activityTimer, pongTimer, leaked, socketId, debounceTimeout,
          discoveryToken, discCalls, sockets, closing, messageQueue,
          channels, authCalls, emitted, delays, history, quiet, triggered,
          members, myId, objects, memberPool, emits,
          received, decoding, dispatched, errors, notified, call>>

\* the current state of the last state-change notification, "" before the
\* first: `notes` are the notifications of the running handler, `last` is
\* that of the handlers before it
ChainEnd(n) == IF n.notes = <<>> THEN n.last ELSE n.notes[Len(n.notes)].current

\* The fields as one record, and the assignment of a record to the fields.
Cur ==
  [state |-> state, ws |-> ws, reconnectAttempts |-> reconnectAttempts,
   reconnectTimer |-> reconnectTimer, activityTimer |-> activityTimer,
   pongTimer |-> pongTimer, leaked |-> leaked, socketId |-> socketId,
   debounceTimeout |-> debounceTimeout, discoveryToken |-> discoveryToken,
   discCalls |-> discCalls,
   sockets |-> sockets, closing |-> closing,
   messageQueue |-> messageQueue,
   channels |-> channels, authCalls |-> authCalls, emitted |-> emitted,
   delays |-> delays, quiet |-> quiet, triggered |-> triggered,
   members |-> members, myId |-> myId, objects |-> objects,
   memberPool |-> memberPool, emits |-> emits,
   received |-> received, decoding |-> decoding, dispatched |-> dispatched,
   errors |-> errors,
   notified |-> IF notified.on THEN [notified EXCEPT !.notes = <<>>,
                                                     !.last = ChainEnd(notified)]
                ELSE notified,
   overflow |-> FALSE]

WithinBounds(c) ==
  /\ ~c.overflow
  /\ \A k \in TimerKinds : c.leaked[k] <= MaxLeak
  /\ Len(c.messageQueue.queue) <= MaxQueue
  /\ Len(c.memberPool) <= MaxPool

Apply(c) ==
  /\ WithinBounds(c)
  /\ state' = c.state
  /\ ws' = c.ws
  /\ reconnectAttempts' = c.reconnectAttempts
  /\ reconnectTimer' = c.reconnectTimer
  /\ activityTimer' = c.activityTimer
  /\ pongTimer' = c.pongTimer
  /\ leaked' = c.leaked
  /\ socketId' = c.socketId
  /\ debounceTimeout' = c.debounceTimeout
  /\ discoveryToken' = c.discoveryToken
  /\ discCalls' = c.discCalls
  /\ sockets' = c.sockets
  /\ closing' = c.closing
  /\ messageQueue' = c.messageQueue
  /\ channels' = c.channels
  /\ authCalls' = c.authCalls
  /\ emitted' = c.emitted
  /\ delays' = c.delays
  /\ quiet' = c.quiet
  /\ triggered' = c.triggered
  /\ members' = c.members
  /\ myId' = c.myId
  /\ objects' = c.objects
  /\ memberPool' = c.memberPool
  /\ emits' = c.emits
  /\ received' = c.received
  /\ decoding' = c.decoding
  /\ dispatched' = c.dispatched
  /\ errors' = c.errors
  /\ notified' = c.notified
  /\ UNCHANGED <<appKeyOrToken, options, history, call>>

\* A transport and what the server has seen on it: st is the readyState
\* ("none": no such transport), keySent the api_key frame, est the
\* connection_established reply, subs the channels subscribed, acks the
\* subscribe frames not yet answered, pinged a ping not yet answered; disc
\* records that the URL carried the token of the discovery of this attempt,
\* staleAuth that a subscribe frame arrived whose authorization was issued
\* for another connection id, clientEvents the channels a client event
\* arrived for
NoSocket == [st |-> "none", keySent |-> FALSE, est |-> FALSE, disc |-> FALSE,
             subs |-> {}, acks |-> {}, pinged |-> FALSE, staleAuth |-> FALSE,
             clientEvents |-> {}]

\* ------------------------------------------------------------ credentials
isPrivateToken == appKeyOrToken = "lspc_"

isPublicKey == appKeyOrToken = "lspk_"

isToken == isPrivateToken \/ isPublicKey

\* `option || default`: an unset (0) option takes the default
OptOr(v, d) == IF v = 0 THEN d ELSE v

maxAttempts == OptOr(options.maxReconnectionAttempts, DefaultMaxAttempts)

baseDelay == OptOr(options.reconnectBaseDelay, DefaultBaseDelay)

backoffMultiplier == OptOr(options.reconnectBackoffMultiplier, DefaultMultiplier)

maxGap == OptOr(options.maxReconnectGapInSeconds, DefaultMaxGap)

enableJitter == options.reconnectJitter

\* ------------------------------------------------------------------ timers
clearTimers(c) ==
  [c EXCEPT !.reconnectTimer = FALSE, !.activityTimer = FALSE, !.pongTimer = FALSE]

\* window.setTimeout assigned to a field: a pending timer the field still
\* refers to stays pending, and nothing can cancel it any more
startActivityTimer(c) ==
  [c EXCEPT !.leaked["activity"] = @ + (IF c.activityTimer THEN 1 ELSE 0),
            !.activityTimer = TRUE]

resetActivityTimer(c) == startActivityTimer([c EXCEPT !.activityTimer = FALSE])

startPongTimer(c) ==
  [c EXCEPT !.leaked["pong"] = @ + (IF c.pongTimer THEN 1 ELSE 0),
            !.pongTimer = TRUE]

handlePong(c) == [c EXCEPT !.pongTimer = FALSE]

\* ------------------------------------------------- transport and the queue
\* what the server makes of a frame written to transport s: the connection
\* id of transport s is s, and a subscribe frame whose authorization was
\* issued for another id is refused
Deliver(s, sock, frame) ==
  CASE frame.event = "api_key"     -> [sock EXCEPT !.keySent = TRUE]
    [] frame.event = "subscribe"   ->
         IF frame.auth \notin {0, s} THEN [sock EXCEPT !.staleAuth = TRUE]
         ELSE [sock EXCEPT !.subs = @ \cup {frame.channel},
                           !.acks = @ \cup {frame.channel}]
    [] frame.event = "unsubscribe" -> [sock EXCEPT !.subs = @ \ {frame.channel},
                                                    !.acks = @ \ {frame.channel}]
    [] frame.event = "ping"        -> [sock EXCEPT !.pinged = TRUE]
    [] frame.event = "client-event" -> [sock EXCEPT !.clientEvents = @ \cup {frame.channel}]
    [] OTHER                       -> sock

RECURSIVE DeliverAll(_, _, _)
DeliverAll(s, sock, frames) ==
  IF frames = <<>> THEN sock
  ELSE DeliverAll(s, Deliver(s, sock, Head(frames)), Tail(frames))

sendRaw(c, frames) ==
  IF c.ws = 0 \/ c.sockets[c.ws].st # "open" THEN c
  ELSE [c EXCEPT !.sockets[c.ws] = DeliverAll(c.ws, @, frames)]

flush(c) ==
  LET c1 == [c EXCEPT !.messageQueue.flushTimer = FALSE] IN
  IF c1.messageQueue.queue = <<>> THEN c1
  ELSE sendRaw([c1 EXCEPT !.messageQueue.queue = <<>>], c1.messageQueue.queue)

enqueue(c, frame) ==
  LET c1 == [c EXCEPT !.messageQueue.queue = Append(@, frame)] IN
  IF Len(c1.messageQueue.queue) >= DefaultBatchSize THEN flush(c1)
  ELSE IF ~c1.messageQueue.flushTimer
       THEN [c1 EXCEPT !.messageQueue.flushTimer = TRUE]
       ELSE c1

clear(c) == [c EXCEPT !.messageQueue = [queue |-> <<>>, flushTimer |-> FALSE]]

send(c, frame) ==
  IF c.state # "connected" THEN c
  ELSE IF options.enableBatching THEN enqueue(c, frame)
  ELSE sendRaw(c, <<frame>>)

\* the value send() returns
sendResult(c) ==
  /\ c.state = "connected"
  /\ \/ options.enableBatching
     \/ c.ws # 0 /\ c.sockets[c.ws].st = "open"

\* ---------------------------------------------------------------- channels
Frame(ev, ch) == [event |-> ev, channel |-> ch, auth |-> 0]

\* the subscribe frame of a private channel; the authorization is modelled
\* by the connection id it was issued for
AuthFrame(ch, sid) == [event |-> "subscribe", channel |-> ch, auth |-> sid]

getChannelType(name) ==
  IF name \in PresenceNames THEN "presence"
  ELSE IF name \in PrivateNames THEN "private"
  ELSE "public"

\* EventEmitter.emit of a channel
handleEvent(c, name, ev) == [c EXCEPT !.emitted = [channel |-> name, event |-> ev]]

\* mutant of channelSubscribe: the flag is set when the frame is sent
channelSubscribe_optimistic(c, i, sid) ==
  IF c.channels[i].subscribed THEN c
  ELSE IF getChannelType(c.channels[i].name) # "public"
       THEN [c EXCEPT !.authCalls = @ \cup {[channel |-> c.channels[i].name, sid |-> sid]}]
       ELSE [send(c, Frame("subscribe", c.channels[i].name))
               EXCEPT !.channels[i].subscribed = TRUE]

\* Channel.subscribe, and PrivateChannel.subscribe up to its await
channelSubscribe(c, i, sid) ==
  IF c.channels[i].subscribed THEN c
  ELSE IF getChannelType(c.channels[i].name) # "public"
       THEN [c EXCEPT !.authCalls = @ \cup {[channel |-> c.channels[i].name, sid |-> sid]}]
       ELSE send(c, Frame("subscribe", c.channels[i].name))

\* PrivateChannel.subscribe after authorize() resolved
authorized(c, a) == send(c, AuthFrame(a.channel, a.sid))

\* mutant of authorizationFailed: the subscribe frame is sent without auth
authorizationFailed_sends(c, a) ==
  send(handleEvent(c, a.channel, "subscription_error"), Frame("subscribe", a.channel))

\* PrivateChannel.subscribe after authorize() threw
authorizationFailed(c, a) == handleEvent(c, a.channel, "subscription_error")

channelUnsubscribe(c, i) ==
  IF ~c.channels[i].subscribed THEN c
  ELSE [send(c, Frame("unsubscribe", c.channels[i].name))
          EXCEPT !.channels[i].subscribed = FALSE]

\* Channel.trigger of channel i, with the value it returns
channelTrigger(c, i) ==
  IF ~c.channels[i].subscribed
  THEN [c EXCEPT !.triggered = [channel |-> c.channels[i].name, result |-> FALSE]]
  ELSE [send(c, Frame("client-event", c.channels[i].name))
          EXCEPT !.triggered = [channel |-> c.channels[i].name,
                                result |-> sendResult(c)]]

\* mutant of subscribeChannel: no check of the connection state
subscribeChannel_eager(c, i) == channelSubscribe(c, i, c.socketId)

subscribeChannel(c, i) ==
  IF c.state # "connected" \/ c.socketId = 0 THEN c
  ELSE channelSubscribe(c, i, c.socketId)

RECURSIVE subscribeFrom(_, _)
subscribeFrom(c, i) ==
  IF i > Len(c.channels) THEN c
  ELSE subscribeFrom(subscribeChannel(c, i), i + 1)

subscribeAllChannels(c) == subscribeFrom(c, 1)

resetChannelStates(c) ==
  [c EXCEPT !.channels = [i \in DOMAIN @ |-> [@[i] EXCEPT !.subscribed = FALSE]]]

handleConnectionStateChange(c, current) ==
  IF current = "connected" THEN subscribeAllChannels(c)
  ELSE IF current \in {"disconnected", "failed"} THEN resetChannelStates(c)
  ELSE c

IndexOf(chs, name) ==
  IF \E i \in DOMAIN chs : chs[i].name = name
  THEN CHOOSE i \in DOMAIN chs : chs[i].name = name
  ELSE 0

\* -------------------------------------------------------------- Connection
\* the call of onStateChange, as a listener sees it
onStateChange(c, previous, current) ==
  IF c.notified.on
  THEN [c EXCEPT !.notified.notes = Append(@, [previous |-> previous,
                                               current |-> current])]
  ELSE c

\* mutant of setState: the callback is called for every assignment
setState_always(c, newState) ==
  LET c1 == [c EXCEPT !.state = newState] IN
  handleConnectionStateChange(onStateChange(c1, c.state, newState), newState)

setState(c, newState) ==
  LET c1 == [c EXCEPT !.state = newState] IN
  IF c.state # newState
  THEN handleConnectionStateChange(onStateChange(c1, c.state, newState), newState)
  ELSE c1

debouncedReconnect(c) == [c EXCEPT !.debounceTimeout = TRUE]

handleConnectionError(c) == debouncedReconnect(setState(c, "failed"))

\* the connection of transport s is gone: its id is from now on a past id
\* wherever the client holds it
Retired(id, s) == IF id = s THEN Gone ELSE id

retire(c, s) ==
  [c EXCEPT !.socketId = Retired(@, s),
            !.authCalls = {[a EXCEPT !.sid = Retired(@, s)] : a \in @},
            !.messageQueue.queue = [i \in DOMAIN @ |-> [@[i] EXCEPT !.auth = Retired(@, s)]]]

FreeSocks(c) == {s \in SockIds : c.sockets[s].st = "none"}

newWebSocket(c, viaDiscovery) ==
  IF Cardinality(FreeSocks(c)) <= c.closing THEN [c EXCEPT !.overflow = TRUE]
  ELSE LET s == CHOOSE x \in FreeSocks(c) : \A y \in FreeSocks(c) : x <= y IN
       [c EXCEPT !.sockets[s] = [NoSocket EXCEPT !.st = "connecting",
                                                 !.disc = viaDiscovery],
                 !.ws = s]

\* if (this.ws) { this.ws.close(); this.ws = null }: the transport delivers
\* no open or message event any more, only its close event
wsClose(c) ==
  IF c.ws = 0 THEN c
  ELSE [retire(c, c.ws) EXCEPT !.sockets[c.ws] = NoSocket, !.closing = @ + 1, !.ws = 0]

\* discover() up to its first await: the call is in flight until its retry
\* loop returns the response or throws
discover(c) ==
  IF c.discCalls >= MaxDisc THEN [c EXCEPT !.overflow = TRUE]
  ELSE [c EXCEPT !.discCalls = @ + 1]

\* connect() after the discovery step: the try block from the isToken check
connectOpen(c, viaDiscovery) ==
  IF ~isToken THEN handleConnectionError(c)
  ELSE startActivityTimer(newWebSocket(c, viaDiscovery))

\* mutant of connect: a public key opens the default endpoint without discovery
connect_noDiscovery(c) ==
  IF c.state \in {"connected", "connecting"} THEN c
  ELSE connectOpen(clearTimers(setState(c, "connecting")), FALSE)

connect(c) ==
  IF c.state \in {"connected", "connecting"} THEN c
  ELSE LET c1 == clearTimers(setState(c, "connecting")) IN
       IF isPublicKey THEN discover(c1) ELSE connectOpen(c1, FALSE)

disconnect(c) ==
  setState(wsClose([clearTimers(c) EXCEPT !.reconnectAttempts = 0,
                                          !.delays = <<>>]),
           "disconnected")

forceReconnect(c) ==
  connect(setState(wsClose([clearTimers(c) EXCEPT !.reconnectAttempts = 0,
                                                  !.delays = <<>>]),
                   "connecting"))

resetReconnectionState(c) ==
  IF c.reconnectAttempts = 0 THEN c
  ELSE [c EXCEPT !.reconnectAttempts = 0, !.delays = <<>>]

handleDisconnection(c) ==
  LET c1 == clear(clearTimers([c EXCEPT !.ws = 0])) IN
  IF c1.state \in {"connected", "connecting"}
  THEN debouncedReconnect(setState(c1, "disconnected"))
  ELSE IF c1.state = "unavailable" THEN debouncedReconnect(c1)
  ELSE c1

RECURSIVE pow(_, _)
pow(b, e) == IF e = 0 THEN 1 ELSE b * pow(b, e - 1)

Min(a, b) == IF a <= b THEN a ELSE b

\* mutant of reconnectDelay: the delay is not capped by maxReconnectGapInSeconds
reconnectDelay_uncapped(attempts, rnd) ==
  LET delay == pow(backoffMultiplier, attempts) * baseDelay
  IN IF enableJitter THEN delay + (delay * rnd) \div (4 * RandDen) ELSE delay

\* the delay of attemptReconnect; rnd / RandDen is the value of Math.random()
reconnectDelay(attempts, rnd) ==
  LET exponentialDelay == pow(backoffMultiplier, attempts) * baseDelay
      delay == Min(exponentialDelay, maxGap * 1000)
  IN IF enableJitter THEN delay + (delay * rnd) \div (4 * RandDen) ELSE delay

\* mutant of attemptReconnect: the counter is incremented before the delay
\* is computed
attemptReconnect_late(c, rnd) ==
  IF c.reconnectAttempts >= maxAttempts
  THEN setState(c, "failed")
  ELSE LET c1 == [c EXCEPT !.reconnectAttempts = @ + 1,
                           !.delays = Append(@, reconnectDelay(c.reconnectAttempts + 1, rnd))]
           c2 == IF c1.state # "connecting" THEN setState(c1, "unavailable") ELSE c1
       IN [c2 EXCEPT !.leaked["reconnect"] = @ + (IF c2.reconnectTimer THEN 1 ELSE 0),
                     !.reconnectTimer = TRUE]

attemptReconnect(c, rnd) ==
  IF c.reconnectAttempts >= maxAttempts
  THEN setState(c, "failed")
  ELSE LET c1 == [c EXCEPT !.reconnectAttempts = @ + 1,
                           !.delays = Append(@, reconnectDelay(c.reconnectAttempts, rnd))]
           c2 == IF c1.state # "connecting" THEN setState(c1, "unavailable") ELSE c1
       IN [c2 EXCEPT !.leaked["reconnect"] = @ + (IF c2.reconnectTimer THEN 1 ELSE 0),
                     !.reconnectTimer = TRUE]

sendPing(c) ==
  IF c.state = "connected" THEN startPongTimer(send(c, Frame("ping", ""))) ELSE c


\* ------------------------------------------------------ caller operations
RECURSIVE unsubscribeFrom(_, _)
unsubscribeFrom(c, i) ==
  IF i > Len(c.channels) THEN c
  ELSE unsubscribeFrom(channelUnsubscribe(c, i), i + 1)

\* LatteStream.disconnect
clientDisconnect(c) ==
  disconnect([unsubscribeFrom(c, 1) EXCEPT !.channels = <<>>])

\* new PublicChannel / PrivateChannel / PresenceChannel, and channels.set:
\* a presence channel starts with an empty member map and no id of its own
newChannel(c, name) ==
  LET c1 == [c EXCEPT !.channels = Append(@, [name |-> name, subscribed |-> FALSE])] IN
  IF getChannelType(name) = "presence"
  THEN [c1 EXCEPT !.members = <<>>, !.myId = ""]
  ELSE c1

\* mutant of clientSubscribe: no check of channels.has(channelName)
clientSubscribe_again(c, name) ==
  IF getChannelType(name) # "public" /\ ~options.authEndpoint THEN c
  ELSE LET i == IndexOf(c.channels, name)
           c1 == IF i # 0 THEN c
                 ELSE newChannel(c, name)
       IN subscribeChannel(c1, IndexOf(c1.channels, name))

\* LatteStream.subscribe; a private channel without authEndpoint throws
clientSubscribe(c, name) ==
  IF IndexOf(c.channels, name) # 0 THEN c
  ELSE IF getChannelType(name) # "public" /\ ~options.authEndpoint THEN c
  ELSE LET c1 == newChannel(c, name)
       IN subscribeChannel(c1, Len(c1.channels))

Without(seq, i) == [j \in 1..(Len(seq) - 1) |-> IF j < i THEN seq[j] ELSE seq[j + 1]]

\* LatteStream.unsubscribe
clientUnsubscribe(c, name) ==
  LET i == IndexOf(c.channels, name) IN
  IF i = 0 THEN c
  ELSE [channelUnsubscribe(c, i) EXCEPT !.channels = Without(@, i)]

\* ---------------------------------------------------------------- presence
\* references to PresenceMember objects
Objs == 1..(MaxPool + Cardinality(MemberIds) + 1)

\* the factory of the memberPool: { id: '', info: undefined }
Blank == [id |-> "", info |-> ""]

\* the objects some field refers to; the others are garbage
Referenced(c) ==
  {c.memberPool[i] : i \in DOMAIN c.memberPool}
    \cup {c.members[i].obj : i \in DOMAIN c.members}

\* garbage collection: an object nothing refers to is gone.  References
\* are opaque, so the objects left are renumbered in the order in which the
\* pool and then the member map refer to them; two references to one object
\* stay two references to one object.
collect(c) ==
  LET refs == c.memberPool \o [i \in DOMAIN c.members |-> c.members[i].obj]
      first(h) == CHOOSE i \in DOMAIN refs :
                    refs[i] = h /\ \A j \in 1..(i - 1) : refs[j] # h
      rank(h) == Cardinality({refs[j] : j \in 1..first(h)})
  IN [c EXCEPT
        !.objects = [g \in Objs |->
                       IF \E h \in Referenced(c) : rank(h) = g
                       THEN c.objects[CHOOSE h \in Referenced(c) : rank(h) = g]
                       ELSE Blank],
        !.memberPool = [i \in DOMAIN c.memberPool |-> rank(c.memberPool[i])],
        !.members = [i \in DOMAIN c.members |->
                       [c.members[i] EXCEPT !.obj = rank(c.members[i].obj)]]]

\* the reference of a newly created object
newObject(c) ==
  CHOOSE h \in Objs \ Referenced(c) : \A g \in Objs \ Referenced(c) : h <= g

\* ObjectPool.acquire: the object it returns, and the pool after the call
acquired(c) ==
  IF c.memberPool # <<>> THEN c.memberPool[Len(c.memberPool)] ELSE newObject(c)

acquire(c) ==
  IF c.memberPool # <<>>
  THEN [c EXCEPT !.memberPool = SubSeq(@, 1, Len(@) - 1)]
  ELSE [c EXCEPT !.objects[newObject(c)] = Blank]

\* ObjectPool.release: reset(obj), then push below the cap
release(c, h) ==
  LET c1 == [c EXCEPT !.objects[h] = Blank] IN
  IF Len(c1.memberPool) < PoolCap
  THEN [c1 EXCEPT !.memberPool = Append(@, h)]
  ELSE c1

\* Map.get, Map.set and Map.delete of members
KeyIndex(ms, id) ==
  IF \E i \in DOMAIN ms : ms[i].id = id
  THEN CHOOSE i \in DOMAIN ms : ms[i].id = id
  ELSE 0

\* mutant of mapSet: a key that is present gets a second entry
mapSet_append(ms, id, h) == Append(ms, [id |-> id, obj |-> h])

mapSet(ms, id, h) ==
  IF KeyIndex(ms, id) # 0
  THEN [ms EXCEPT ![KeyIndex(ms, id)].obj = h]
  ELSE Append(ms, [id |-> id, obj |-> h])

\* handleEvent of a member event
emitMember(c, name, ev) == [handleEvent(c, name, ev) EXCEPT !.emits = 1 - @]

\* PresenceChannel.handleMemberAdded
handleMemberAdded(c, name, member) ==
  LET h == acquired(c)
      c1 == [acquire(c) EXCEPT !.objects[h] = [id |-> member.id, info |-> member.info]]
      c2 == [c1 EXCEPT !.members = mapSet(@, member.id, h)]
  IN emitMember(c2, name, "member_added")

\* PresenceChannel.handleMemberRemoved
handleMemberRemoved(c, name, member) ==
  LET i == KeyIndex(c.members, member.id) IN
  IF i = 0 THEN c
  ELSE release(emitMember([c EXCEPT !.members = Without(@, i)], name, "member_removed"),
               c.members[i].obj)

\* handleChannelEvent for member_added and member_removed
memberEvent(c, name, ev, member) ==
  IF IndexOf(c.channels, name) = 0 THEN c
  ELSE IF getChannelType(name) # "presence" THEN handleEvent(c, name, ev)
  ELSE IF ev = "member_added" THEN handleMemberAdded(c, name, member)
  ELSE handleMemberRemoved(c, name, member)

\* Object.entries(presence.hash).forEach(members.set(id, { id, info }))
RECURSIVE setEntries(_, _)
setEntries(c, hash) ==
  IF hash = <<>> THEN c
  ELSE LET h == newObject(c)
           e == Head(hash)
       IN setEntries([c EXCEPT !.objects[h] = [id |-> e.id, info |-> e.info],
                               !.members = mapSet(@, e.id, h)],
                     Tail(hash))

\* mutant of hydrate: the members known before are kept
hydrate_keep(c, data) ==
  IF ~data.presence THEN c
  ELSE LET c1 == setEntries(c, data.hash) IN
       IF data.me # "" THEN [c1 EXCEPT !.myId = data.me] ELSE c1

\* PresenceChannel.handleSubscriptionSucceeded up to the call of super
hydrate(c, data) ==
  IF ~data.presence THEN c
  ELSE LET c1 == setEntries([c EXCEPT !.members = <<>>], data.hash) IN
       IF data.me # "" THEN [c1 EXCEPT !.myId = data.me] ELSE c1

\* the history `quiet`: "disconnect" after the caller's disconnect() and
\* "discovery" after a failed discovery, until the caller's next connect()
\* or forceReconnect()
Record(c, why) == IF history THEN [c EXCEPT !.quiet = why] ELSE c

Connect ==
  /\ state \in States
  /\ Apply(Record(connect(Cur), "none"))

Disconnect ==
  /\ state \in States
  /\ Apply(Record(clientDisconnect(Cur), "disconnect"))

ForceReconnect ==
  /\ state \in States
  /\ Apply(Record(forceReconnect(Cur), "none"))

Subscribe(name) ==
  /\ name \in ChannelNames \cup PrivateNames \cup PresenceNames
  /\ Apply(clientSubscribe(Cur, name))

Unsubscribe(name) ==
  /\ IndexOf(channels, name) # 0
  /\ Apply(clientUnsubscribe(Cur, name))

\* the caller holds the channel object subscribe() returned
Trigger(name) ==
  /\ IndexOf(channels, name) # 0
  /\ Apply(channelTrigger(Cur, IndexOf(channels, name)))

\* ----------------------------------------------------------------- timers
\* A pending timer of a kind fires: the one the field refers to, or one
\* whose handle was overwritten
Fired(c, kind, tracked) ==
  IF tracked
  THEN CASE kind = "reconnect" -> [c EXCEPT !.reconnectTimer = FALSE]
         [] kind = "activity"  -> [c EXCEPT !.activityTimer = FALSE]
         [] kind = "pong"      -> [c EXCEPT !.pongTimer = FALSE]
  ELSE [c EXCEPT !.leaked[kind] = @ - 1]

Pending(kind, tracked) ==
  IF tracked
  THEN CASE kind = "reconnect" -> reconnectTimer
         [] kind = "activity"  -> activityTimer
         [] kind = "pong"      -> pongTimer
  ELSE leaked[kind] > 0

\* the callback of debounce(): timeout = null; attemptReconnect()
DebounceFire ==
  /\ debounceTimeout
  /\ \E rnd \in (IF enableJitter THEN 0..(RandDen - 1) ELSE {0}) :
       Apply(attemptReconnect([Cur EXCEPT !.debounceTimeout = FALSE], rnd))

ReconnectTimerFire ==
  \E tracked \in BOOLEAN :
    /\ Pending("reconnect", tracked)
    /\ Apply(connect(Fired(Cur, "reconnect", tracked)))

ActivityTimerFire ==
  \E tracked \in BOOLEAN :
    /\ Pending("activity", tracked)
    /\ Apply(sendPing(Fired(Cur, "activity", tracked)))

PongTimerFire ==
  \E tracked \in BOOLEAN :
    /\ Pending("pong", tracked)
    /\ Apply(disconnect(Fired(Cur, "pong", tracked)))

FlushTimerFire ==
  /\ messageQueue.flushTimer
  /\ Apply(flush(Cur))

\* -------------------------------------------------------------- discovery
\* discover() returned a response with a discovery token: performDiscovery
\* stores it and connect() goes on to open the transport
DiscoveryOk ==
  /\ discCalls > 0
  /\ Apply(connectOpen([Cur EXCEPT !.discCalls = @ - 1, !.discoveryToken = TRUE],
                       TRUE))

\* discover() threw after its last attempt: performDiscovery rethrows and
\* connect() ends in its catch block
DiscoveryFailed ==
  /\ discCalls > 0
  /\ Apply(Record(handleConnectionError([Cur EXCEPT !.discCalls = @ - 1]),
                  IF quiet = "disconnect" THEN quiet ELSE "discovery"))

\* ------------------------------------------------------- transport events
\* mutant of onopen: the open event alone marks a token client connected
onopen_connects(c) == setState(sendRaw(c, <<Frame("api_key", "")>>), "connected")

onopen(c) ==
  IF isToken THEN sendRaw(c, <<Frame("api_key", "")>>)
  ELSE setState(c, "connected")

SockOpen(s) ==
  /\ sockets[s].st = "connecting"
  /\ Apply(onopen([Cur EXCEPT !.sockets[s].st = "open"]))

\* onclose of a transport the peer or the network closed
SockClose(s) ==
  /\ sockets[s].st # "none"
  /\ Apply(handleDisconnection([retire(Cur, s) EXCEPT !.sockets[s] = NoSocket]))

\* onclose of a transport the client closed with close()
SockClosed ==
  /\ closing > 0
  /\ Apply(handleDisconnection([Cur EXCEPT !.closing = @ - 1]))

\* handleMessage for lattestream:connection_established, then onmessage
connectionEstablished(c, sid) ==
  LET c1 == [c EXCEPT !.socketId = sid] IN
  resetActivityTimer(IF isToken /\ c1.state # "connected"
                     THEN setState(c1, "connected") ELSE c1)

RecvConnectionEstablished(s) ==
  /\ sockets[s].st = "open"
  /\ sockets[s].keySent
  /\ ~sockets[s].est
  /\ Apply(connectionEstablished([Cur EXCEPT !.sockets[s].est = TRUE], s))

\* handleChannelEvent for subscription_succeeded, then onmessage
subscriptionSucceeded(c, name) ==
  LET i == IndexOf(c.channels, name) IN
  resetActivityTimer(IF i = 0 THEN c
                     ELSE resetReconnectionState(
                            handleEvent([c EXCEPT !.channels[i].subscribed = TRUE],
                                        name, "subscription_succeeded")))

RecvSubscriptionSucceeded(s, name) ==
  /\ sockets[s].st = "open"
  /\ name \in sockets[s].acks
  /\ Apply(subscriptionSucceeded([Cur EXCEPT !.sockets[s].acks = @ \ {name}], name))

RecvPong(s) ==
  /\ sockets[s].st = "open"
  /\ sockets[s].pinged
  /\ Apply(resetActivityTimer(handlePong([Cur EXCEPT !.sockets[s].pinged = FALSE])))

\* any other frame, or a frame that does not parse: only the activity timer
RecvOther(s) ==
  /\ sockets[s].st = "open"
  /\ Apply(resetActivityTimer(Cur))

\* handleChannelEvent for subscription_succeeded of a presence channel
presenceSucceeded(c, name, data) ==
  IF IndexOf(c.channels, name) = 0 THEN resetActivityTimer(c)
  ELSE subscriptionSucceeded(hydrate(c, data), name)

RecvPresenceSucceeded(s, name, data) ==
  /\ sockets[s].st = "open"
  /\ name \in sockets[s].acks
  /\ Apply(collect(presenceSucceeded([Cur EXCEPT !.sockets[s].acks = @ \ {name}],
                                     name, data)))

\* the server reports members of a channel it has subscribed the client to
RecvMemberAdded(s, name, member) ==
  /\ sockets[s].st = "open"
  /\ name \in sockets[s].subs \ sockets[s].acks
  /\ Apply(collect(resetActivityTimer(memberEvent(Cur, name, "member_added", member))))

RecvMemberRemoved(s, name, member) ==
  /\ sockets[s].st = "open"
  /\ name \in sockets[s].subs \ sockets[s].acks
  /\ Apply(collect(resetActivityTimer(memberEvent(Cur, name, "member_removed", member))))

\* ------------------------------------------------------- inbound frames
\* event.data of a message event: a string, an ArrayBuffer or a Blob
FrameKinds == {"text", "buffer", "blob"}

\* the inbound frames of a run: the id counts them in the order of their
\* message events, ok tells whether JSON.parse / parseBinaryMessage
\* returns a message for them or throws
Inbound == [id : 1..MaxFrames, kind : FrameKinds, ok : BOOLEAN, channel : ChannelNames]

\* LatteStream.handleError: the global error event
onError(c) == [c EXCEPT !.errors = 1 - @]

\* LatteStream.handleParsedMessage and handleChannelEvent for an event of a
\* channel
handleParsedMessage(c, f) ==
  IF IndexOf(c.channels, f.channel) = 0 THEN c
  ELSE [handleEvent(c, f.channel, "message") EXCEPT !.dispatched = Append(@, f.id)]

\* mutant of onmessage: a frame that does not decode is a connection error
onmessage_teardown(c, f) ==
  IF f.ok THEN resetActivityTimer(handleParsedMessage(c, f))
  ELSE handleConnectionError(onError(c))

\* ws.onmessage from the point where handleMessage has the decoded message,
\* or has caught the error of the decoder and returns null
onmessage(c, f) ==
  IF f.ok THEN resetActivityTimer(handleParsedMessage(c, f))
  ELSE resetActivityTimer(c)

\* a message event with a channel event.  A string is parsed, and an
\* ArrayBuffer decoded, without leaving the event loop's turn; a Blob is
\* read with `await data.arrayBuffer()`, which ends the turn
RecvFrame(s, f) ==
  /\ sockets[s].st = "open"
  /\ f.channel \in sockets[s].subs \ sockets[s].acks
  /\ f.id = received + 1
  /\ Apply(LET c == [Cur EXCEPT !.received = f.id] IN
           IF f.kind = "blob" THEN [c EXCEPT !.decoding = @ \cup {f}]
           ELSE onmessage(c, f))

\* arrayBuffer() of a Blob resolved: the suspended onmessage call goes on
BlobDecoded(f) ==
  /\ f \in decoding
  /\ Apply(onmessage([Cur EXCEPT !.decoding = @ \ {f}], f))

\* ws.onerror
SockError(s) ==
  /\ sockets[s].st \in {"connecting", "open"}
  /\ Apply(onError(Cur))

\* ------------------------------------------------------ binary protocol
\* what a function returns, or the messages of the Error it throws (an
\* Error that wraps another one carries the message of that one behind
\* its own)
Return(v) == [ok |-> TRUE, value |-> v]

Throw(msgs) == [ok |-> FALSE, error |-> msgs]

\* JSON values: the numbers 0 and 1, arrays of them, and objects with the
\* key "a"
JNum(n) == [type |-> "number", n |-> n]

JArr(items) == [type |-> "array", items |-> items]

JObj(fields) == [type |-> "object", fields |-> fields]

JsonNumbers == {JNum(n) : n \in 0..1}

JsonObjects == {JObj(<<>>)} \cup {JObj([k \in {"a"} |-> v]) : v \in JsonNumbers}

JsonValues ==
  JsonNumbers \cup JsonObjects
    \cup {JArr(<<>>)} \cup {JArr(<<v>>) : v \in JsonNumbers}

\* JSON.stringify, as the character codes of its text
stringify(v) ==
  CASE v.type = "number" -> <<48 + v.n>>
    [] v.type = "array"  ->
         <<91>> \o (IF v.items = <<>> THEN <<>> ELSE <<48 + v.items[1].n>>) \o <<93>>
    [] v.type = "object" ->
         <<123>> \o (IF DOMAIN v.fields = {} THEN <<>>
                     ELSE <<34, 97, 34, 58, 48 + v.fields["a"].n>>) \o <<125>>

\* white space of String.prototype.trim and of JSON among the characters
\* that occur here: tab, line feed, carriage return, space
WhiteSpace == {9, 10, 13, 32}

RECURSIVE trimStart(_)
trimStart(text) ==
  IF text # <<>> /\ Head(text) \in WhiteSpace THEN trimStart(Tail(text)) ELSE text

RECURSIVE trimEnd(_)
trimEnd(text) ==
  IF text # <<>> /\ text[Len(text)] \in WhiteSpace
  THEN trimEnd(SubSeq(text, 1, Len(text) - 1))
  ELSE text

trim(text) == trimEnd(trimStart(text))

\* JSON.parse: white space between the tokens is skipped (no value here has
\* a string in which white space could occur); any other text is a
\* SyntaxError
JSONparse(text) ==
  LET tokens == SelectSeq(text, LAMBDA ch : ch \notin WhiteSpace) IN
  IF \E v \in JsonValues : stringify(v) = tokens
  THEN Return(CHOOSE v \in JsonValues : stringify(v) = tokens)
  ELSE Throw(<<"SyntaxError">>)

\* TextEncoder.encode of an ASCII text, and TextDecoder.decode: a byte that
\* is not ASCII and starts no valid sequence becomes U+FFFD
encode(text) == text

decode(bytes) == [i \in DOMAIN bytes |-> IF bytes[i] < 128 THEN bytes[i] ELSE 65533]

\* mutant of setUint32: the bytes in network order
setUint32_bigEndian(n) ==
  <<(n \div 16777216) % 256, (n \div 65536) % 256, (n \div 256) % 256, n % 256>>

\* DataView.setUint32(0, n, true) and DataView.getUint32(0, true)
setUint32(n) ==
  <<n % 256, (n \div 256) % 256, (n \div 65536) % 256, (n \div 16777216) % 256>>

getUint32(bytes, offset) ==
  bytes[offset + 1] + 256 * bytes[offset + 2] + 65536 * bytes[offset + 3]
    + 16777216 * bytes[offset + 4]

\* Uint8Array.slice(from, to)
slice(bytes, from, to) == SubSeq(bytes, from + 1, to)

\* { ...metadata, binaryData }: the own enumerable properties of the
\* parsed metadata, then the property binaryData
spread(metadata, binaryData) ==
  LET own == CASE metadata.type = "object" -> metadata.fields
               [] metadata.type = "array"  ->
                    [k \in {ToString(i - 1) : i \in DOMAIN metadata.items} |->
                       metadata.items[CHOOSE i \in DOMAIN metadata.items : ToString(i - 1) = k]]
               [] OTHER -> <<>>
  IN JObj([k \in DOMAIN own \cup {"binaryData"} |->
             IF k = "binaryData" THEN binaryData ELSE own[k]])

parseBinaryPayloadWithMetadata(payloadBytes) ==
  IF Len(payloadBytes) < 4
  THEN Throw(<<"Binary payload with metadata too short">>)
  ELSE LET metadataLength == getUint32(payloadBytes, 0) IN
       IF Len(payloadBytes) < 4 + metadataLength
       THEN Throw(<<"Binary payload metadata truncated">>)
       ELSE IF metadataLength = 0
       THEN Throw(<<"Binary payload has zero metadata length">>)
       ELSE LET metadata == JSONparse(decode(slice(payloadBytes, 4, 4 + metadataLength)))
                binaryDataBytes == slice(payloadBytes, 4 + metadataLength, Len(payloadBytes))
            IN IF metadata.ok THEN Return(spread(metadata.value, binaryDataBytes))
               ELSE Throw(<<"Failed to parse binary payload metadata">> \o metadata.error)

parseCompressedPayload(payloadBytes) == JSONparse(decode(payloadBytes))

parseLatteStreamBinaryProtocol(bytes) ==
  IF Len(bytes) < 8 THEN Throw(<<"Binary message too short">>)
  ELSE LET messageType == getUint32(bytes, 0)
           payloadLength == getUint32(bytes, 4)
       IN IF Len(bytes) < 8 + payloadLength
          THEN Throw(<<"Binary message payload truncated">>)
          ELSE IF payloadLength = 0
          THEN Throw(<<"Binary message has zero payload length">>)
          ELSE LET payloadBytes == slice(bytes, 8, 8 + payloadLength)
                   r == CASE messageType = 1 -> JSONparse(decode(payloadBytes))
                          [] messageType = 2 -> parseBinaryPayloadWithMetadata(payloadBytes)
                          [] messageType = 3 -> parseCompressedPayload(payloadBytes)
                          [] OTHER ->
                               IF trim(decode(payloadBytes)) = <<>>
                               THEN Throw(<<"Unknown message type with empty payload">>)
                               ELSE JSONparse(decode(payloadBytes))
               IN IF r.ok THEN r
                  ELSE Throw(<<"Failed to parse binary protocol message type">> \o r.error)

\* parseBinaryMessage for the bytes of an ArrayBuffer, a Uint8Array or a Blob
parseBinaryMessage(bytes) ==
  LET trimmedText == trim(decode(bytes))
      looksLikeJson == trimmedText # <<>> /\ Head(trimmedText) \in {123, 91}
      isProtocol ==
        /\ Len(bytes) >= 8
        /\ getUint32(bytes, 0) >= 1
        /\ getUint32(bytes, 0) <= 3
        /\ getUint32(bytes, 4) <= Len(bytes) - 8
        /\ getUint32(bytes, 4) > 0
      tried ==
        IF looksLikeJson /\ JSONparse(trimmedText).ok THEN JSONparse(trimmedText)
        ELSE IF isProtocol THEN parseLatteStreamBinaryProtocol(bytes)
        ELSE IF trimmedText # <<>>
        THEN IF JSONparse(trimmedText).ok THEN JSONparse(trimmedText)
             ELSE Throw(<<"Unable to parse binary message as JSON or binary protocol">>)
        ELSE Throw(<<"Binary message appears to be empty or invalid UTF-8">>)
      lastResort == parseLatteStreamBinaryProtocol(bytes)
  IN IF tried.ok THEN tried
     ELSE IF lastResort.ok THEN lastResort
     ELSE Throw(<<"Unable to parse binary message">> \o tried.error)

createBinaryMessage(messageType, payload) ==
  LET header(payloadBytes) ==
        setUint32(messageType) \o setUint32(Len(payloadBytes)) \o payloadBytes
  IN CASE messageType = 1 -> Return(header(encode(stringify(payload))))
       [] messageType = 2 ->
            LET metadataBytes == encode(stringify(payload.metadata)) IN
            Return(header(setUint32(Len(metadataBytes)) \o metadataBytes
                            \o payload.binaryData))
       [] OTHER -> Throw(<<"Unsupported message type">>)

\* ------------------------------------------------------- event listeners
\* FastEventEmitter.events: per event name a Set of listeners, which keeps
\* each listener once, in the order of its first insertion
EventNames == {"update", "delete"}

Listeners == {"f", "g", "h"}

\* the listeners that throw when they are called
Throwing == {"g"}

setAdd(set, x) == IF \E i \in DOMAIN set : set[i] = x THEN set ELSE Append(set, x)

setDelete(set, x) == SelectSeq(set, LAMBDA y : y # x)

on(events, event, listener) == [events EXCEPT ![event] = setAdd(@, listener)]

off(events, event, listener) == [events EXCEPT ![event] = setDelete(@, listener)]

offAll(events, event) == [events EXCEPT ![event] = <<>>]

emitterClear(events) == [e \in EventNames |-> <<>>]

\* emit: the listeners called, in order, and the errors caught and logged
RECURSIVE emitFrom(_, _, _)
emitFrom(listeners, i, done) ==
  IF i > Len(listeners) THEN done
  ELSE LET listener == listeners[i]
           called == [done EXCEPT !.invoked = Append(@, listener)] IN
       emitFrom(listeners, i + 1,
                IF listener \in Throwing
                THEN [called EXCEPT !.caught = @ + 1]
                ELSE called)

emit(events, event) == emitFrom(events[event], 1, [invoked |-> <<>>, caught |-> 0])

\* ------------------------------------------ publisher connection pool
\* ConnectionPool of the LatteStreamServer: p.pool is the Map in insertion
\* order, p.aborted the AbortControllers whose signal is aborted, p.inflight
\* the requests waiting in fetch(), p.now the value of Date.now()
RequestKeys == {"POST:/auth", "POST:/events"}

Controllers == 1..(MaxRequests + Cardinality(RequestKeys))

poolIndex(pool, key) ==
  IF \E i \in DOMAIN pool : pool[i].key = key
  THEN CHOOSE i \in DOMAIN pool : pool[i].key = key
  ELSE 0

abort(p, controller) == [p EXCEPT !.aborted = @ \cup {controller}]

\* new AbortController(): an object nothing refers to yet
newAbortController(p) ==
  CHOOSE id \in Controllers :
    /\ \A i \in DOMAIN p.pool : p.pool[i].controller # id
    /\ \A r \in p.inflight : r.controller # id
    /\ \A other \in Controllers :
         (/\ \A i \in DOMAIN p.pool : p.pool[i].controller # other
          /\ \A r \in p.inflight : r.controller # other) => id <= other

\* the unused entries older than now, the first of the oldest is evicted
evictOldest(p) ==
  LET old == {i \in DOMAIN p.pool : ~p.pool[i].inUse /\ p.pool[i].lastUsed < p.now} IN
  IF old = {} THEN p
  ELSE LET i == CHOOSE x \in old :
                  \A y \in old : \/ p.pool[x].lastUsed < p.pool[y].lastUsed
                                  \/ (p.pool[x].lastUsed = p.pool[y].lastUsed /\ x <= y)
       IN [abort(p, p.pool[i].controller) EXCEPT !.pool = Without(@, i)]

\* ConnectionPool.acquire; p.returned is the controller it returns
poolAcquire(p, key) ==
  LET i == poolIndex(p.pool, key) IN
  IF i # 0 /\ ~p.pool[i].inUse /\ p.now - p.pool[i].lastUsed < p.maxAge
  THEN [p EXCEPT !.pool[i].inUse = TRUE, !.pool[i].lastUsed = p.now,
                 !.returned = p.pool[i].controller]
  ELSE LET p1 == IF i # 0
                 THEN [abort(p, p.pool[i].controller) EXCEPT !.pool = Without(@, i)]
                 ELSE p
           controller == newAbortController(p1)
           p2 == [p1 EXCEPT !.pool = Append(@, [key |-> key, controller |-> controller,
                                                lastUsed |-> p.now, inUse |-> TRUE]),
                            !.aborted = @ \ {controller},
                            !.returned = controller]
       IN IF Len(p2.pool) > p.maxSize THEN evictOldest(p2) ELSE p2

\* ConnectionPool.release
poolRelease(p, key) ==
  LET i == poolIndex(p.pool, key) IN
  IF i = 0 THEN p
  ELSE [p EXCEPT !.pool[i].inUse = FALSE, !.pool[i].lastUsed = p.now]

\* the setInterval callback of startCleanup
RECURSIVE cleanupFrom(_, _)
cleanupFrom(p, i) ==
  IF i > Len(p.pool) THEN p
  ELSE IF ~p.pool[i].inUse /\ p.now - p.pool[i].lastUsed > p.maxAge
  THEN cleanupFrom([abort(p, p.pool[i].controller) EXCEPT !.pool = Without(@, i)], i)
  ELSE cleanupFrom(p, i + 1)

\* makeApiRequest up to its await of fetch()
makeApiRequest(p, key) ==
  LET p1 == poolAcquire(p, key) IN
  [p1 EXCEPT !.inflight = @ \cup {[key |-> key, controller |-> p1.returned,
                                   started |-> p.now]}]

\* makeApiRequest after fetch() resolved or rejected
settled(p, r) == poolRelease([p EXCEPT !.inflight = @ \ {r}], r.key)

\* ------------------------------------------- publisher-side authorization
\* strings are sequences of characters
PrivatePrefix == <<"p", "r", "i", "v", "a", "t", "e", "-">>

PresencePrefix == <<"p", "r", "e", "s", "e", "n", "c", "e", "-">>

startsWith(str, prefix) ==
  Len(str) >= Len(prefix) /\ SubSeq(str, 1, Len(prefix)) = prefix

\* the characters of [a-zA-Z0-9_\-=@,.;] and of [0-9a-f] among those that
\* occur in the names and ids tried here
ChannelChars == {"a", "c", "e", "i", "n", "p", "r", "s", "t", "v", "Z", "7",
                 "_", "-", "=", "@", ",", ".", ";"}

HexChars == {"1", "7", "a", "f"}

\* /^[a-zA-Z0-9_\-=@,.;]+$/.test(channelName)
validChannelPattern(str) ==
  str # <<>> /\ \A i \in DOMAIN str : str[i] \in ChannelChars

\* /^[0-9a-f]+\.[0-9a-f]+$/.test(sid)
socketIdPattern(str) ==
  \E k \in DOMAIN str :
    /\ str[k] = "."
    /\ 1 < k /\ k < Len(str)
    /\ \A i \in DOMAIN str \ {k} : str[i] \in HexChars

\* ServerAuthorizer.isValidChannelName and isValidSocketId
isValidChannelName(channelName) ==
  /\ channelName # <<>>
  /\ Len(channelName) <= MaxChannelNameLength
  /\ validChannelPattern(channelName)

isValidSocketId(sid) == sid # <<>> /\ socketIdPattern(sid)

\* userData: undefined, a string, or an object with or without a user_id
\* (which may be the empty string)
NoUserId == "undefined"

NoUserData == [type |-> "undefined", user_id |-> NoUserId]

HasUserId(userData) ==
  userData.type = "object" /\ userData.user_id \notin {NoUserId, ""}

\* ServerAuthorizer.authorizeChannel: throws, or goes on to the HMAC
ServerAuthorizer_authorizeChannel(sid, channelName) ==
  IF ~isValidChannelName(channelName) THEN Throw(<<"Invalid channel name">>)
  ELSE IF ~isValidSocketId(sid) THEN Throw(<<"Invalid socket ID">>)
  ELSE Return("generateAuthString")

\* ServerAuthorizer.authorizePresenceChannel
authorizePresenceChannel(sid, channelName, userData) ==
  IF ~startsWith(channelName, PresencePrefix)
  THEN Throw(<<"Channel is not a presence channel">>)
  ELSE IF ~isValidSocketId(sid) THEN Throw(<<"Invalid socket ID">>)
  ELSE IF userData.type # "object"
  THEN Throw(<<"User data is required for presence channels">>)
  ELSE IF ~HasUserId(userData)
  THEN Throw(<<"user_id is required in userData for presence channels">>)
  ELSE Return("generateAuthString")

\* LatteStreamServer.validateChannels for one channel
validateChannels(channel) ==
  IF channel = <<>> THEN Throw(<<"Channel name must be a non-empty string">>)
  ELSE IF Len(channel) > MaxChannelNameLength
  THEN Throw(<<"Channel name cannot be longer than 200 characters">>)
  ELSE IF ~validChannelPattern(channel) THEN Throw(<<"Invalid channel name">>)
  ELSE Return("valid")

\* LatteStreamServer.authorizeChannel: throws, or goes on to the request
\* POST /auth
authorizeChannel(sid, channelName, userData) ==
  IF channelName = <<>>
  THEN Throw(<<"Channel name is required and must be a string">>)
  ELSE IF sid = <<>>
  THEN Throw(<<"Socket ID is required and must be a string">>)
  ELSE IF ~validateChannels(channelName).ok THEN validateChannels(channelName)
  ELSE IF startsWith(channelName, PrivatePrefix) \/ startsWith(channelName, PresencePrefix)
  THEN Return([request |-> "POST /auth", socket_id |-> sid,
               channel_name |-> channelName,
               channel_data |-> IF startsWith(channelName, PresencePrefix)
                                     /\ userData.type # "undefined"
                                THEN userData ELSE NoUserData])
  ELSE Throw(<<"Public channels do not require authorization">>)

\* ---------------------------------------------------------- authorization
\* authorize() resolved with an auth value for the id it was called with
AuthOk(a) ==
  /\ a \in authCalls
  /\ Apply(authorized([Cur EXCEPT !.authCalls = @ \ {a}], a))

\* authorize() threw: non-2xx response, missing auth field or network error
AuthFailed(a) ==
  /\ a \in authCalls
  /\ Apply(authorizationFailed([Cur EXCEPT !.authCalls = @ \ {a}], a))

\* ------------------------------------------------------- specifications
InitFields ==
  /\ state = "disconnected"
  /\ ws = 0
  /\ reconnectAttempts = 0
  /\ reconnectTimer = FALSE
  /\ activityTimer = FALSE
  /\ pongTimer = FALSE
  /\ leaked = [k \in TimerKinds |-> 0]
  /\ socketId = 0
  /\ debounceTimeout = FALSE
  /\ discoveryToken = FALSE
  /\ discCalls = 0
  /\ sockets = [s \in SockIds |-> NoSocket]
  /\ closing = 0
  /\ messageQueue = [queue |-> <<>>, flushTimer |-> FALSE]
  /\ channels = <<>>
  /\ authCalls = {}
  /\ emitted = [channel |-> "", event |-> ""]
  /\ delays = <<>>
  /\ quiet = "none"
  /\ triggered = [channel |-> "", result |-> FALSE]
  /\ members = <<>>
  /\ myId = ""
  /\ emits = 0
  /\ received = 0
  /\ decoding = {}
  /\ dispatched = <<>>
  /\ errors = 0
  /\ objects = [h \in Objs |-> Blank]

\* the memberPool is static: it holds what the presence channels of the
\* page have left of the objects it was constructed with
StaticPool(k) == memberPool = [i \in 1..k |-> i]

\* no function of the SDK is called apart from the methods of the client
NoCall == call = [stage |-> "none"]

\* no listener observes the state-change notifications
Unobserved == notified = [on |-> FALSE]

Observed == notified = [on |-> TRUE, notes |-> <<>>, last |-> ""]

InitClient == InitFields /\ StaticPool(MaxPool) /\ NoCall /\ Unobserved

Timers ==
  \/ DebounceFire
  \/ ReconnectTimerFire
  \/ ActivityTimerFire
  \/ PongTimerFire

Discovery ==
  \/ DiscoveryOk
  \/ DiscoveryFailed

Transport ==
  \/ SockClosed
  \/ \E s \in SockIds :
    \/ SockOpen(s)
    \/ SockClose(s)
    \/ RecvConnectionEstablished(s)
    \/ RecvPong(s)
    \/ RecvOther(s)

\* Spec: the connection state machine of a client without channels, for
\* every kind of credential, under every interleaving of the caller's
\* connect(), disconnect() and forceReconnect() with timers, discovery and
\* transport events.  Frames are written to the transport unbatched
\* (enableBatching: false), the delay is computed without jitter.
Init ==
  /\ appKeyOrToken \in Credentials
  /\ options \in [maxReconnectionAttempts : {MaxAttemptsOpt},
                  maxReconnectGapInSeconds : {0}, reconnectBaseDelay : {0},
                  reconnectBackoffMultiplier : {0}, reconnectJitter : {FALSE},
                  enableBatching : {FALSE}, authEndpoint : {TRUE}]
  /\ history = FALSE
  /\ InitClient

Next ==
  \/ Connect
  \/ Disconnect
  \/ ForceReconnect
  \/ Timers
  \/ Discovery
  \/ Transport

Spec == Init /\ [][Next]_vars

\* SpecHistory: Spec with the history `quiet` recorded and with the default
\* batching of outbound frames.
InitHistory ==
  /\ appKeyOrToken \in Credentials
  /\ options \in [maxReconnectionAttempts : {MaxAttemptsOpt},
                  maxReconnectGapInSeconds : {0}, reconnectBaseDelay : {0},
                  reconnectBackoffMultiplier : {0}, reconnectJitter : {FALSE},
                  enableBatching : {TRUE}, authEndpoint : {TRUE}]
  /\ history = TRUE
  /\ InitClient

NextHistory == Next \/ FlushTimerFire

SpecHistory == InitHistory /\ [][NextHistory]_vars

\* SpecNotify: the client of Spec with a listener that observes the
\* state-change notifications.
InitNotify ==
  /\ appKeyOrToken \in Credentials
  /\ options \in [maxReconnectionAttempts : {MaxAttemptsOpt},
                  maxReconnectGapInSeconds : {0}, reconnectBaseDelay : {0},
                  reconnectBackoffMultiplier : {0}, reconnectJitter : {FALSE},
                  enableBatching : {FALSE}, authEndpoint : {TRUE}]
  /\ history = FALSE
  /\ InitFields
  /\ StaticPool(MaxPool)
  /\ NoCall
  /\ Observed

\* every call of setState is reached without the keepalive, whose timers
\* and frames are left out
NextNotify ==
  \/ Connect
  \/ Disconnect
  \/ ForceReconnect
  \/ DebounceFire
  \/ ReconnectTimerFire
  \/ Discovery
  \/ SockClosed
  \/ \E s \in SockIds :
       \/ SockOpen(s)
       \/ SockClose(s)
       \/ RecvConnectionEstablished(s)

SpecNotify == InitNotify /\ [][NextNotify]_vars

\* SpecChannels: a private-token client with its channel registry, under
\* every interleaving.
InitChannels ==
  /\ appKeyOrToken = "lspc_"
  /\ options \in [maxReconnectionAttempts : {MaxAttemptsOpt},
                  maxReconnectGapInSeconds : {0}, reconnectBaseDelay : {0},
                  reconnectBackoffMultiplier : {0}, reconnectJitter : {FALSE},
                  enableBatching : {FALSE}, authEndpoint : {TRUE}]
  /\ history = FALSE
  /\ InitClient

NextChannels ==
  \/ Connect
  \/ Disconnect
  \/ ForceReconnect
  \/ \E name \in ChannelNames : Subscribe(name)
  \/ \E name \in ChannelNames : Unsubscribe(name)
  \/ Timers
  \/ Transport
  \/ \E s \in SockIds, name \in ChannelNames : RecvSubscriptionSucceeded(s, name)

SpecChannels == InitChannels /\ [][NextChannels]_vars

\* SpecAuto: the caller only calls connect() on an idle, disconnected client
\* and otherwise leaves the client to itself; the reconnection options range
\* over unset values (defaults) and set ones, with and without jitter.
Idle ==
  /\ state = "disconnected"
  /\ ws = 0 /\ closing = 0 /\ discCalls = 0
  /\ \A s \in SockIds : sockets[s].st = "none"
  /\ ~debounceTimeout /\ ~reconnectTimer /\ ~activityTimer /\ ~pongTimer
  /\ \A k \in TimerKinds : leaked[k] = 0

ConnectWhenIdle ==
  /\ Idle
  /\ Apply(connect(Cur))

InitAuto ==
  /\ appKeyOrToken \in Credentials
  /\ options \in [maxReconnectionAttempts : 1..MaxAttemptsAuto,
                  maxReconnectGapInSeconds : {0, 3},
                  reconnectBaseDelay : {0, 400},
                  reconnectBackoffMultiplier : {0, 3},
                  reconnectJitter : BOOLEAN,
                  enableBatching : {FALSE}, authEndpoint : {TRUE}]
  /\ history = FALSE
  /\ InitClient

NextAuto ==
  \/ ConnectWhenIdle
  \/ Timers
  \/ Discovery
  \/ Transport

SpecAuto == InitAuto /\ [][NextAuto]_vars

\* SpecAutoFair: SpecAuto for the default delays without jitter, with the
\* timers that are armed firing eventually: a pending setTimeout callback
\* runs unless it is cleared.
InitAutoFair ==
  /\ appKeyOrToken \in Credentials
  /\ options \in [maxReconnectionAttempts : {MaxAttemptsOpt + 1},
                  maxReconnectGapInSeconds : {0}, reconnectBaseDelay : {0},
                  reconnectBackoffMultiplier : {0}, reconnectJitter : {FALSE},
                  enableBatching : {FALSE}, authEndpoint : {TRUE}]
  /\ history = FALSE
  /\ InitClient

SpecAutoFair ==
  /\ InitAutoFair
  /\ [][NextAuto]_vars
  /\ WF_vars(DebounceFire)
  /\ WF_vars(ReconnectTimerFire)

\* SpecRegistry: a private-token client with a public and a private channel,
\* whose subscribe handshake starts with a call of the authorization
\* endpoint.  The caller subscribes, unsubscribes and disconnects at any
\* time and calls connect() on an idle client.
AllNames == ChannelNames \cup PrivateNames

AuthCalls == [channel : PrivateNames \cup PresenceNames, sid : SockIds \cup {Gone}]

InitRegistry ==
  /\ appKeyOrToken = "lspc_"
  /\ options \in [maxReconnectionAttempts : {MaxAttemptsOpt},
                  maxReconnectGapInSeconds : {0}, reconnectBaseDelay : {0},
                  reconnectBackoffMultiplier : {0}, reconnectJitter : {FALSE},
                  enableBatching : {FALSE}, authEndpoint : BOOLEAN]
  /\ history = FALSE
  /\ InitClient

NextRegistry ==
  \/ ConnectWhenIdle
  \/ Disconnect
  \/ \E name \in AllNames : Subscribe(name)
  \/ \E name \in AllNames : Unsubscribe(name)
  \/ \E a \in AuthCalls : AuthOk(a)
  \/ \E a \in AuthCalls : AuthFailed(a)
  \/ Timers
  \/ Transport
  \/ \E s \in SockIds, name \in AllNames : RecvSubscriptionSucceeded(s, name)

SpecRegistry == InitRegistry /\ [][NextRegistry]_vars

\* SpecTrigger: the client of SpecRegistry whose caller also triggers client
\* events on the channels it holds
NextTrigger ==
  \/ NextRegistry
  \/ \E name \in AllNames : Trigger(name)

SpecTrigger == InitRegistry /\ [][NextTrigger]_vars

\* SpecPresence: a private-token client with a presence channel whose
\* transport the server may close; the client then reconnects by itself.
\* The server answers the subscribe frame with any presence payload and
\* reports any member as added or removed.
Members == [id : MemberIds, info : Infos]

Member(id, info) == [id |-> id, info |-> info]

\* presence.hash as Object.entries lists it: no member, one, or two
Hashes ==
  {<<>>, <<Member("u1", "a")>>, <<Member("u2", "b")>>,
   <<Member("u1", "b"), Member("u2", "a")>>,
   <<Member("u2", "a"), Member("u1", "a")>>}

PresenceData ==
  {[presence |-> FALSE, hash |-> <<>>, me |-> ""]}
    \cup [presence : {TRUE}, hash : Hashes, me : MemberIds \cup {""}]

InitPresence ==
  /\ appKeyOrToken = "lspc_"
  /\ options \in [maxReconnectionAttempts : {MaxAttemptsOpt},
                  maxReconnectGapInSeconds : {0}, reconnectBaseDelay : {0},
                  reconnectBackoffMultiplier : {0}, reconnectJitter : {FALSE},
                  enableBatching : {FALSE}, authEndpoint : {TRUE}]
  /\ history = FALSE
  /\ InitFields
  /\ Unobserved
  /\ \E k \in 0..MaxPool : StaticPool(k)
  /\ NoCall

NextPresence ==
  \/ ConnectWhenIdle
  \/ \E name \in PresenceNames : Subscribe(name)
  \/ \E a \in AuthCalls : AuthOk(a)
  \/ DebounceFire
  \/ ReconnectTimerFire
  \/ \E s \in SockIds :
       \/ SockOpen(s)
       \/ SockClose(s)
       \/ RecvConnectionEstablished(s)
       \/ \E name \in PresenceNames :
            \/ \E data \in PresenceData : RecvPresenceSucceeded(s, name, data)
            \/ \E member \in Members : RecvMemberAdded(s, name, member)
            \/ \E member \in Members : RecvMemberRemoved(s, name, member)

SpecPresence == InitPresence /\ [][NextPresence]_vars

\* SpecInbound: a private-token client with a public channel that receives
\* channel events as text frames and as binary frames, some of which do not
\* decode.  The caller connects an idle client, subscribes and disconnects;
\* the server may close the transport.
InitInbound ==
  /\ appKeyOrToken = "lspc_"
  /\ options \in [maxReconnectionAttempts : {MaxAttemptsOpt},
                  maxReconnectGapInSeconds : {0}, reconnectBaseDelay : {0},
                  reconnectBackoffMultiplier : {0}, reconnectJitter : {FALSE},
                  enableBatching : {FALSE}, authEndpoint : {FALSE}]
  /\ history = FALSE
  /\ InitClient

NextInbound ==
  \/ ConnectWhenIdle
  \/ Disconnect
  \/ \E name \in ChannelNames : Subscribe(name)
  \/ Timers
  \/ SockClosed
  \/ \E s \in SockIds :
       \/ SockOpen(s)
       \/ SockClose(s)
       \/ SockError(s)
       \/ RecvConnectionEstablished(s)
       \/ \E name \in ChannelNames : RecvSubscriptionSucceeded(s, name)
       \/ \E f \in Inbound : RecvFrame(s, f)
  \/ \E f \in Inbound : BlobDecoded(f)

SpecInbound == InitInbound /\ [][NextInbound]_vars

\* SpecCodec: the functions of the binary protocol, applied to payloads to
\* encode and to the bytes of frames to decode.  A frame is a header with
\* any of the message types and any declared length up to MaxExtra bytes
\* beyond the payload that follows, or bytes without a header.
MessageTypes == {0, 1, 2, 3, 7}

Tails == {<<>>, <<72>>, <<0, 255>>, <<123>>}

Payloads ==
  {<<>>, <<120>>, <<32>>}
    \cup {stringify(v) : v \in JsonValues}
    \cup {setUint32(m) \o text \o tail :
            m \in {0, 2, 7, 9},
            text \in {stringify(v) : v \in JsonObjects} \cup {<<123, 34, 97, 34, 58>>},
            tail \in {<<>>, <<72>>}}

\* a payload with the payload length its header declares
Declared == UNION {{<<n, p>> : n \in 0..(Len(p) + MaxExtra)} : p \in Payloads}

Headerless ==
  {<<>>, <<32>>, <<120>>, <<255>>, <<1, 0, 0>>}
    \cup {stringify(v) : v \in JsonValues}
    \cup {<<32>> \o stringify(v) \o <<10>> : v \in JsonValues}

Wire ==
  {setUint32(t) \o setUint32(d[1]) \o d[2] : t \in MessageTypes, d \in Declared}
    \cup Headerless

InitCodec ==
  /\ appKeyOrToken = "lspc_"
  /\ options \in [maxReconnectionAttempts : {MaxAttemptsOpt},
                  maxReconnectGapInSeconds : {0}, reconnectBaseDelay : {0},
                  reconnectBackoffMultiplier : {0}, reconnectJitter : {FALSE},
                  enableBatching : {FALSE}, authEndpoint : {FALSE}]
  /\ history = FALSE
  /\ InitFields
  /\ Unobserved
  /\ StaticPool(MaxPool)
  /\ call \in [stage : {"payload"}, messageType : {1}, payload : JsonValues]
             \cup [stage : {"payload"}, messageType : {2},
                   payload : [metadata : JsonObjects, binaryData : Tails]]
             \cup [stage : {"payload"}, messageType : {3, 7}, payload : JsonNumbers]
             \cup [stage : {"frame"}, bytes : Wire]

\* the fields of the client, which no function of the protocol touches
client == <<appKeyOrToken, options, state, ws, reconnectAttempts, reconnectTimer,
            activityTimer, pongTimer, leaked, socketId, debounceTimeout,
            discoveryToken, discCalls, sockets, closing, messageQueue,
            channels, authCalls, emitted, delays, history, quiet, triggered,
            members, myId, objects, memberPool, emits,
            received, decoding, dispatched, errors, notified>>

Create ==
  /\ call.stage = "payload"
  /\ call' = [stage |-> "created", messageType |-> call.messageType,
              payload |-> call.payload,
              message |-> createBinaryMessage(call.messageType, call.payload)]
  /\ UNCHANGED client

\* the bytes of a created message given to a decoder
ParseCreated ==
  /\ call.stage = "created"
  /\ call.message.ok
  /\ call' = [stage |-> "decoded", messageType |-> call.messageType,
              payload |-> call.payload, by |-> "parseBinaryMessage",
              result |-> parseBinaryMessage(call.message.value)]
  /\ UNCHANGED client

ParseCreatedProtocol ==
  /\ call.stage = "created"
  /\ call.message.ok
  /\ call' = [stage |-> "decoded", messageType |-> call.messageType,
              payload |-> call.payload, by |-> "parseLatteStreamBinaryProtocol",
              result |-> parseLatteStreamBinaryProtocol(call.message.value)]
  /\ UNCHANGED client

\* the bytes of a received frame given to a decoder
ParseFrame ==
  /\ call.stage = "frame"
  /\ call' = [stage |-> "parsed", bytes |-> call.bytes, by |-> "parseBinaryMessage",
              result |-> parseBinaryMessage(call.bytes)]
  /\ UNCHANGED client

ParseFrameProtocol ==
  /\ call.stage = "frame"
  /\ call' = [stage |-> "parsed", bytes |-> call.bytes,
              by |-> "parseLatteStreamBinaryProtocol",
              result |-> parseLatteStreamBinaryProtocol(call.bytes)]
  /\ UNCHANGED client

NextCodec ==
  \/ Create
  \/ ParseCreated
  \/ ParseCreatedProtocol
  \/ ParseFrame
  \/ ParseFrameProtocol

SpecCodec == InitCodec /\ [][NextCodec]_vars

\* the arguments given to the publisher-side authorization functions
Filler(n) == [i \in 1..n |-> "a"]

ChannelBodies == {<<>>, <<"a">>, <<"Z", "7", ";">>, <<"a", " ">>, <<"#">>}

ChannelNamesTried ==
  {prefix \o body : prefix \in {<<>>, PrivatePrefix, PresencePrefix},
                    body \in ChannelBodies}
    \cup {prefix \o Filler(n - Len(prefix)) :
            prefix \in {<<>>, PrivatePrefix, PresencePrefix},
            n \in {MaxChannelNameLength, MaxChannelNameLength + 1}}

SocketIdsTried ==
  {<<>>, <<"1", ".", "1">>, <<"1", "f", ".", "7", "a">>, <<"1", "f">>,
   <<".", "1">>, <<"1", ".">>, <<"1", ".", "1", ".", "1">>,
   <<"F", ".", "1">>, <<"g", ".", "1">>}

UserDataTried ==
  {NoUserData, [type |-> "string", user_id |-> NoUserId]}
    \cup [type : {"object"}, user_id : {NoUserId, "", "u1"}]

InitAuthorize ==
  /\ appKeyOrToken = "lspc_"
  /\ options \in [maxReconnectionAttempts : {MaxAttemptsOpt},
                  maxReconnectGapInSeconds : {0}, reconnectBaseDelay : {0},
                  reconnectBackoffMultiplier : {0}, reconnectJitter : {FALSE},
                  enableBatching : {FALSE}, authEndpoint : {FALSE}]
  /\ history = FALSE
  /\ InitFields
  /\ Unobserved
  /\ StaticPool(MaxPool)
  /\ call \in [stage : {"request"}, socketId : SocketIdsTried,
               channelName : ChannelNamesTried, userData : UserDataTried]

Authorized(by, result) ==
  /\ call' = [stage |-> "authorized", socketId |-> call.socketId,
              channelName |-> call.channelName, userData |-> call.userData,
              by |-> by, result |-> result]
  /\ UNCHANGED client

\* ServerAuthorizer.authorizeChannel takes no user data
AuthorizeChannel ==
  /\ call.stage = "request"
  /\ call.userData = NoUserData
  /\ Authorized("ServerAuthorizer.authorizeChannel",
                ServerAuthorizer_authorizeChannel(call.socketId, call.channelName))

AuthorizePresenceChannel ==
  /\ call.stage = "request"
  /\ Authorized("ServerAuthorizer.authorizePresenceChannel",
                authorizePresenceChannel(call.socketId, call.channelName,
                                         call.userData))

ServerAuthorizeChannel ==
  /\ call.stage = "request"
  /\ Authorized("LatteStreamServer.authorizeChannel",
                authorizeChannel(call.socketId, call.channelName, call.userData))

NextAuthorize ==
  \/ AuthorizeChannel
  \/ AuthorizePresenceChannel
  \/ ServerAuthorizeChannel

SpecAuthorize == InitAuthorize /\ [][NextAuthorize]_vars

\* SpecPool: the requests of a LatteStreamServer to two endpoints, at most
\* MaxRequests of them in flight.  A request is answered, or its timeout
\* fires and aborts it; time passes in steps of the request timeout.  The
\* options maxConnections and connectionMaxAge are unset or set to small
\* values.
InitPool ==
  /\ appKeyOrToken = "lspc_"
  /\ options \in [maxReconnectionAttempts : {MaxAttemptsOpt},
                  maxReconnectGapInSeconds : {0}, reconnectBaseDelay : {0},
                  reconnectBackoffMultiplier : {0}, reconnectJitter : {FALSE},
                  enableBatching : {FALSE}, authEndpoint : {FALSE}]
  /\ history = FALSE
  /\ InitFields
  /\ Unobserved
  /\ StaticPool(MaxPool)
  /\ call \in [stage : {"pool"}, pool : {<<>>}, aborted : {{}}, inflight : {{}},
               now : {0}, returned : {0},
               maxSize : {1, DefaultMaxConnections},
               maxAge : {DefaultTimeout, DefaultMaxAge}]

\* a request in flight: its key, its controller, and when it started
Requests ==
  [key : RequestKeys, controller : Controllers,
   started : {t * DefaultTimeout : t \in 0..MaxTicks}]

Request(key) ==
  /\ call.stage = "pool"
  /\ Cardinality(call.inflight) < MaxRequests
  /\ call' = makeApiRequest(call, key)
  /\ UNCHANGED client

\* fetch() resolves with the response
Respond(r) ==
  /\ call.stage = "pool"
  /\ r \in call.inflight
  /\ r.controller \notin call.aborted
  /\ call' = settled(call, r)
  /\ UNCHANGED client

\* the callback of the setTimeout of the request
TimeoutFire(r) ==
  /\ call.stage = "pool"
  /\ r \in call.inflight
  /\ call.now >= r.started + DefaultTimeout
  /\ call' = abort(call, r.controller)
  /\ UNCHANGED client

\* fetch() rejects with an AbortError
Rejected(r) ==
  /\ call.stage = "pool"
  /\ r \in call.inflight
  /\ r.controller \in call.aborted
  /\ call' = settled(call, r)
  /\ UNCHANGED client

Cleanup ==
  /\ call.stage = "pool"
  /\ call' = cleanupFrom(call, 1)
  /\ UNCHANGED client

Tick ==
  /\ call.stage = "pool"
  /\ call.now < MaxTicks * DefaultTimeout
  /\ call' = [call EXCEPT !.now = @ + DefaultTimeout]
  /\ UNCHANGED client

NextPool ==
  \/ \E key \in RequestKeys : Request(key)
  \/ \E r \in Requests : Respond(r)
  \/ \E r \in Requests : TimeoutFire(r)
  \/ \E r \in Requests : Rejected(r)
  \/ Cleanup
  \/ Tick

SpecPool == InitPool /\ [][NextPool]_vars

\* SpecDrops: a private-token client whose every connection attempt reaches
\* connected: a transport opens, the server answers the api_key frame, and
\* only the transport of an established connection drops.  The caller
\* connects the idle client and may subscribe to a public channel, which the
\* server may or may not acknowledge; the keepalive is answered in time.
InitDrops ==
  /\ appKeyOrToken = "lspc_"
  /\ options \in [maxReconnectionAttempts : 1..MaxAttemptsAuto,
                  maxReconnectGapInSeconds : {0}, reconnectBaseDelay : {0},
                  reconnectBackoffMultiplier : {0}, reconnectJitter : {FALSE},
                  enableBatching : {FALSE}, authEndpoint : {FALSE}]
  /\ history = FALSE
  /\ InitClient

\* the transport of the established connection drops
DropConnected(s) ==
  /\ state = "connected"
  /\ ws = s
  /\ sockets[s].est
  /\ SockClose(s)

NextDrops ==
  \/ ConnectWhenIdle
  \/ \E name \in ChannelNames : Subscribe(name)
  \/ DebounceFire
  \/ ReconnectTimerFire
  \/ \E s \in SockIds :
       \/ SockOpen(s)
       \/ RecvConnectionEstablished(s)
       \/ DropConnected(s)
       \/ \E name \in ChannelNames : RecvSubscriptionSucceeded(s, name)

SpecDrops == InitDrops /\ [][NextDrops]_vars

\* SpecListeners: the listeners of one channel.  The caller binds and
\* unbinds listeners, one of which throws, and events are dispatched on the
\* channel; `bound` is the history of the bind() calls in force.
InitListeners ==
  /\ appKeyOrToken = "lspc_"
  /\ options \in [maxReconnectionAttempts : {MaxAttemptsOpt},
                  maxReconnectGapInSeconds : {0}, reconnectBaseDelay : {0},
                  reconnectBackoffMultiplier : {0}, reconnectJitter : {FALSE},
                  enableBatching : {FALSE}, authEndpoint : {FALSE}]
  /\ history = FALSE
  /\ InitFields
  /\ Unobserved
  /\ StaticPool(MaxPool)
  /\ call = [stage |-> "listeners",
             events |-> [e \in EventNames |-> <<>>],
             bound |-> [e \in EventNames |-> <<>>],
             event |-> "", invoked |-> <<>>, caught |-> 0]

\* Channel.bind
Bind(event, listener) ==
  /\ call.stage = "listeners"
  /\ Len(call.bound[event]) < MaxBindings
  /\ call' = [call EXCEPT !.events = on(@, event, listener),
                          !.bound[event] = Append(@, listener)]
  /\ UNCHANGED client

\* Channel.unbind: "" is an argument left out
Unbind(event, listener) ==
  /\ call.stage = "listeners"
  /\ call' = IF event = ""
             THEN [call EXCEPT !.events = emitterClear(@),
                               !.bound = [e \in EventNames |-> <<>>]]
             ELSE IF listener = ""
             THEN [call EXCEPT !.events = offAll(@, event), !.bound[event] = <<>>]
             ELSE [call EXCEPT !.events = off(@, event, listener),
                               !.bound[event] = SelectSeq(@, LAMBDA y : y # listener)]
  /\ UNCHANGED client

\* Channel.handleEvent
Dispatch(event) ==
  /\ call.stage = "listeners"
  /\ call' = [call EXCEPT !.event = event,
                          !.invoked = emit(call.events, event).invoked,
                          !.caught = emit(call.events, event).caught]
  /\ UNCHANGED client

NextListeners ==
  \/ \E event \in EventNames, listener \in Listeners : Bind(event, listener)
  \/ \E event \in EventNames \cup {""}, listener \in Listeners \cup {""} :
       Unbind(event, listener)
  \/ \E event \in EventNames : Dispatch(event)

SpecListeners == InitListeners /\ [][NextListeners]_vars

TypeOK ==
  /\ state \in States
  /\ ws \in 0..MaxSockets
  /\ reconnectAttempts \in 0..maxAttempts
  /\ socketId \in SockIds \cup {0, Gone}
  /\ authCalls \subseteq AuthCalls
  /\ \A i \in DOMAIN channels : channels[i].name \in AllNames \cup PresenceNames

\* ------------------------------------------------------------------ claims

\* C6: with a token-style credential the state changes to connected only in
\* the step that receives a connection_established frame on an open
\* transport, and that step stores the socket id of the frame; the open
\* event of a transport never makes the state connected.
C6_ConnectedOnlyOnEstablished ==
  [][(isToken /\ state # "connected" /\ state' = "connected")
       => \E s \in SockIds :
            /\ sockets[s].st = "open" /\ ~sockets[s].est
            /\ sockets'[s].est
            /\ socketId' = s]_vars

C6_Witness ==
  /\ isToken
  /\ state = "connected"
  /\ ws # 0
  /\ sockets[ws].est
  /\ socketId = ws

\* C7: a client holding a public key creates a transport only in the step in
\* which a discover() call of the running connect attempt returns a token;
\* every transport it has was opened with that token, never by falling back
\* to the default endpoint.
C7_PublicKeyOpensOnlyAfterDiscovery ==
  [][\A s \in SockIds :
       (isPublicKey /\ sockets[s].st = "none" /\ sockets'[s].st # "none")
         => /\ sockets'[s].disc
            /\ discoveryToken'
            /\ discCalls > 0
            /\ discCalls' = discCalls - 1]_vars

C7_Witness ==
  /\ isPublicKey
  /\ \E s \in SockIds : sockets[s].st = "open" /\ sockets[s].disc

\* a connection attempt is under way: a discover() call is in flight, or the
\* transport the connection refers to is connecting or open
AttemptInProgress ==
  \/ discCalls > 0
  \/ ws # 0 /\ sockets[ws].st \in {"connecting", "open"}

\* C2: forceReconnect(), called in any state, leaves the counter at 0 and the
\* state connecting with a connection attempt in progress.
C2_ForceReconnectStartsAttempt ==
  [][ForceReconnect
       => /\ reconnectAttempts' = 0
          /\ state' = "connecting"
          /\ AttemptInProgress']_vars

BudgetExhausted == state = "failed" /\ reconnectAttempts >= maxAttempts

NewTransportOrDiscovery ==
  \/ discCalls' > discCalls
  \/ \E s \in SockIds : sockets[s].st = "none" /\ sockets'[s].st # "none"

\* C4: once the budget is exhausted and the state is failed, no timer,
\* transport event or background retry changes the state or starts a
\* discovery call or a transport: a step that does is a call of the caller
\* (of which the claim admits forceReconnect() alone).
C4_FailedStaysFailed ==
  [][(BudgetExhausted /\ (state' # "failed" \/ NewTransportOrDiscovery))
       => (Connect \/ Disconnect \/ ForceReconnect)]_vars

\* C1: after the caller's disconnect(), and until the caller's next connect()
\* or forceReconnect(), the state is disconnected, the counter is 0, and no
\* step starts a discovery call or opens a transport.
C1_DisconnectStays ==
  /\ [](quiet = "disconnect" => state = "disconnected" /\ reconnectAttempts = 0)
  /\ [][(quiet = "disconnect" /\ quiet' = "disconnect")
          => ~NewTransportOrDiscovery]_vars

\* C5: when the discovery of a public-key client has failed, the state is
\* failed and stays failed with no reconnection attempt scheduled (no debounced
\* call, no reconnect timer), until the caller's next call.
C5_DiscoveryFailsFast ==
  (isPublicKey /\ quiet = "discovery")
    => /\ state = "failed"
       /\ ~debounceTimeout
       /\ ~reconnectTimer
       /\ leaked["reconnect"] = 0

Registered(name) == \E i \in DOMAIN channels : channels[i].name = name

\* C8: the counter returns to 0 only in a step of the caller's disconnect()
\* or forceReconnect(), or in the step that processes a subscription_succeeded
\* frame for a registered channel; never on a transport open or on
\* connection_established.
C8_CounterResetOnlyOnSubscription ==
  [][(reconnectAttempts > 0 /\ reconnectAttempts' = 0)
       => \/ Disconnect
          \/ ForceReconnect
          \/ \E s \in SockIds, name \in ChannelNames :
               Registered(name) /\ RecvSubscriptionSucceeded(s, name)]_vars

IsPrefix(p, q) == Len(p) <= Len(q) /\ \A i \in DOMAIN p : p[i] = q[i]

ScenarioC ==
  /\ options.maxReconnectionAttempts = 3
  /\ baseDelay = 1000
  /\ backoffMultiplier = 2
  /\ maxGap = DefaultMaxGap
  /\ ~enableJitter

\* C9: with maxReconnectionAttempts = 3, baseDelay = 1000, multiplier = 2 and
\* no jitter, the delays scheduled since the counter was 0 are 1000, 2000 and
\* 4000 in this order, one per attempt counted; when the budget is exhausted
\* and the state is failed, exactly these three were scheduled and no further
\* reconnect timer is pending.
C9_BackoffSchedule ==
  ScenarioC
    => /\ IsPrefix(delays, <<1000, 2000, 4000>>)
       /\ Len(delays) = reconnectAttempts
       /\ (BudgetExhausted /\ ~debounceTimeout)
            => /\ delays = <<1000, 2000, 4000>>
               /\ ~reconnectTimer /\ leaked["reconnect"] = 0

C9_Witness ==
  /\ ScenarioC
  /\ BudgetExhausted /\ ~debounceTimeout
  /\ delays = <<1000, 2000, 4000>>

\* the delay of the specification for attempt index a, without jitter
SpecifiedDelay(a) ==
  LET e == baseDelay * backoffMultiplier ^ a
      m == maxGap * 1000
  IN IF e < m THEN e ELSE m

\* C10: the delay scheduled for attempt index a (the (a+1)-th since the
\* counter was 0) is min(baseDelay * multiplier^a, maxDelay) without jitter,
\* and lies in [d, 1.25 d) for that d with jitter.
C10_DelayFormula ==
  \A i \in DOMAIN delays :
    LET d == SpecifiedDelay(i - 1) IN
    IF enableJitter
    THEN d <= delays[i] /\ 4 * delays[i] < 5 * d
    ELSE delays[i] = d

C10_Witness ==
  /\ enableJitter
  /\ Len(delays) = 3
  /\ delays[1] > SpecifiedDelay(0)
  /\ SpecifiedDelay(2) = maxGap * 1000
  /\ SpecifiedDelay(2) < baseDelay * backoffMultiplier ^ 2

ScheduledReconnects ==
  (IF debounceTimeout THEN 1 ELSE 0) + (IF reconnectTimer THEN 1 ELSE 0)
    + leaked["reconnect"]

\* C3: when a transport closes while the state is connected (or connecting)
\* and the counter is below maxAttempts, the state becomes disconnected with a
\* debounced reconnection request pending, and if the caller leaves the
\* client alone a reconnection attempt follows: the state becomes connecting
\* with a new transport being opened (for a public key, with the discovery
\* call that precedes it in flight); at no time is more than one reconnection
\* scheduled.
C3_CloseLeadsToOneReconnect ==
  /\ [][\A s \in SockIds :
          (state = "connected" /\ reconnectAttempts < maxAttempts /\ SockClose(s))
            => (state' = "disconnected" /\ debounceTimeout')]_vars
  /\ (state = "disconnected" /\ debounceTimeout /\ reconnectAttempts < maxAttempts)
       ~> (state = "connecting" /\ AttemptInProgress)
  /\ [](ScheduledReconnects <= 1)

\* C11: when the pong-wait timer the client holds fires while a transport is
\* open, the transport is force-closed, and when the close event of a
\* transport closed that way is handled with reconnection budget left, a
\* reconnection is scheduled (the debounced request or the reconnect timer
\* is pending) instead of the client staying disconnected.  In SpecAuto only
\* the pong-wait timeout closes a transport from the client's side.
C11_PongTimeoutReconnects ==
  /\ [][(PongTimerFire /\ pongTimer /\ ~pongTimer' /\ ws # 0)
          => (ws' = 0 /\ closing' = closing + 1)]_vars
  /\ [][(SockClosed /\ reconnectAttempts < maxAttempts)
          => ScheduledReconnects' >= 1]_vars

AttemptsInProgress ==
  discCalls + Cardinality({s \in SockIds : sockets[s].st = "connecting"})

LiveTransports == {s \in SockIds : sockets[s].st # "none"}

\* C12: connection attempts never overlap: at most one attempt (a discovery
\* call in flight or a transport being opened) is in progress, at most one
\* transport that is connecting or open has its handlers bound to the state
\* machine, and at most one reconnection is scheduled.
C12_NoOverlap ==
  /\ AttemptsInProgress <= 1
  /\ Cardinality(LiveTransports) <= 1
  /\ ScheduledReconnects <= 1

NoTimerPending ==
  /\ ~reconnectTimer /\ ~activityTimer /\ ~pongTimer
  /\ \A k \in TimerKinds : leaked[k] = 0

\* C13: after the step that handles the close of the client's transport, and
\* after disconnect(), called by the caller or by the pong-wait timeout, no
\* reconnect, activity or
\* pong-wait timer is pending, so that none can fire against a later
\* connection.
C13_TimersCancelled ==
  [][((\E s \in SockIds : s = ws /\ SockClose(s)) \/ Disconnect \/ PongTimerFire)
       => NoTimerPending']_vars

Frames == <<sockets, messageQueue>>

\* C14: subscribe(name) for a name that is already registered leaves the
\* registry as it is (the same single entry for the name) and starts no
\* handshake: no authorization call is started and no frame is written or
\* queued.
C14_SubscribeIdempotent ==
  [][\A name \in AllNames :
       (Subscribe(name) /\ Registered(name))
         => /\ channels' = channels
            /\ authCalls' = authCalls
            /\ Frames' = Frames]_vars

\* a registered private channel with no handshake in flight on an
\* established connection: subscribe(name) would start one if it were not
\* idempotent
C14_Witness ==
  /\ state = "connected" /\ ws # 0 /\ sockets[ws].est /\ socketId = ws
  /\ \E i \in DOMAIN channels :
       /\ channels[i].name \in PrivateNames
       /\ ~channels[i].subscribed
       /\ channels[i].name \notin sockets[ws].acks
  /\ authCalls = {}

Subscribed(name) ==
  \E i \in DOMAIN channels : channels[i].name = name /\ channels[i].subscribed

\* C15: a private channel subscribed while the state is not connected is
\* registered unsubscribed, with no authorization call and no frame issued;
\* the step into connected starts the authorization call of every
\* registered, unsubscribed private channel with the connection id just
\* received; when that call succeeds on the same connection the subscribe
\* frame is written and the channel is still unsubscribed; the channel
\* becomes subscribed only in a step that receives subscription_succeeded
\* for it.
C15_DeferredPrivateSubscribe ==
  /\ [][\A name \in PrivateNames :
          (Subscribe(name) /\ ~Registered(name) /\ options.authEndpoint
             /\ state # "connected")
            => /\ Registered(name)' /\ ~Subscribed(name)'
               /\ authCalls' = authCalls
               /\ Frames' = Frames]_vars
  /\ [][\A name \in PrivateNames :
          (state # "connected" /\ state' = "connected"
             /\ Registered(name) /\ ~Subscribed(name))
            => /\ socketId' \in SockIds /\ sockets'[socketId'].est
               /\ [channel |-> name, sid |-> socketId'] \in authCalls']_vars
  /\ [][\A a \in AuthCalls :
          (AuthOk(a) /\ state = "connected" /\ a.sid = ws)
            => /\ a.channel \in sockets'[ws].acks
               /\ Subscribed(a.channel)' = Subscribed(a.channel)]_vars
  /\ [][\A name \in PrivateNames :
          (~Subscribed(name) /\ Subscribed(name)')
            => \E s \in SockIds : RecvSubscriptionSucceeded(s, name)]_vars

C15_Witness ==
  /\ state = "connected" /\ ws # 0 /\ socketId = ws
  /\ \E name \in PrivateNames : Subscribed(name) /\ name \in sockets[ws].subs
  /\ ~sockets[ws].staleAuth

\* C16: the subscribed flag of a registered channel turns from false to true
\* only in a step that processes a subscription_succeeded frame naming the
\* channel; every step that writes or queues a subscribe frame, or starts
\* the authorization of one, leaves the flag false.
C16_SubscribedOnlyOnSucceeded ==
  [][\A name \in AllNames :
       (~Subscribed(name) /\ Subscribed(name)')
         => \E s \in SockIds :
              /\ name \in sockets[s].acks
              /\ RecvSubscriptionSucceeded(s, name)]_vars

C16_Witness ==
  /\ state = "connected" /\ ws # 0
  /\ \E name \in ChannelNames :
       /\ Subscribed(name)
       /\ name \in sockets[ws].subs /\ name \notin sockets[ws].acks

\* C17: the step in which the authorization call of a private channel fails
\* emits subscription_error on that channel, writes or queues no frame, and
\* leaves the subscribed flag of the channel as it was (unsubscribed when
\* this was its only handshake).
C17_AuthFailureNoSubscribe ==
  [][\A a \in AuthCalls :
       AuthFailed(a)
         => /\ emitted' = [channel |-> a.channel, event |-> "subscription_error"]
            /\ Frames' = Frames
            /\ Subscribed(a.channel)' = Subscribed(a.channel)]_vars

C17_Witness ==
  /\ state = "connected" /\ ws # 0 /\ sockets[ws].est
  /\ \E name \in PrivateNames :
       /\ emitted = [channel |-> name, event |-> "subscription_error"]
       /\ Registered(name) /\ ~Subscribed(name)
       /\ name \notin sockets[ws].subs

\* C18: no transport ever receives a subscribe frame whose authorization was
\* obtained for a connection id other than the transport's own.
C18_AuthBoundToConnection ==
  \A s \in SockIds : ~sockets[s].staleAuth

\* C19: after the step that handles the close of a transport, whether the
\* peer or the client closed it, every registered channel is unsubscribed,
\* and the step writes no frame to another transport and leaves none queued.
C19_CloseResetsChannels ==
  [][((\E s \in SockIds : SockClose(s)) \/ SockClosed)
       => /\ \A name \in AllNames : ~Subscribed(name)'
          /\ \A s \in SockIds : sockets'[s] = sockets[s] \/ sockets'[s] = NoSocket
          /\ messageQueue'.queue = <<>>]_vars

\* the subscribe handshake of a channel has been started on connection id:
\* the subscribe frame was written to that transport or, for a private
\* channel, the authorization call for that id is in flight
HandshakeStarted(name, id, calls, socks) ==
  IF name \in PrivateNames
  THEN [channel |-> name, sid |-> id] \in calls
  ELSE id \in SockIds /\ name \in socks[id].acks

\* C20: every step into connected starts the subscribe handshake, on the
\* connection just established, of every channel that is registered: after
\* a transport drop every registered channel is unsubscribed, so that the
\* reconnect subscribes each of them again.
C20_ResubscribeOnConnected ==
  [][(state # "connected" /\ state' = "connected")
       => \A name \in AllNames :
            Registered(name)
              => HandshakeStarted(name, socketId', authCalls', sockets')]_vars

\* C21: trigger() sends a client event frame only on a private (or presence)
\* channel that is subscribed: a call on a public channel or on a channel
\* that is not subscribed writes no frame to the transport or the send
\* queue and returns false.
C21_TriggerOnlyOnPrivateSubscribed ==
  [][\A name \in AllNames :
       Trigger(name) /\ ~(getChannelType(name) # "public" /\ Subscribed(name))
         => Frames' = Frames /\ ~triggered'.result]_vars

\* the member mapping as getMember(id) shows it: for each key the id and
\* the info of the object stored under it
Entries(ms, objs) ==
  {[key |-> ms[i].id, id |-> objs[ms[i].obj].id, info |-> objs[ms[i].obj].info] :
     i \in DOMAIN ms}

C30_PresenceHydration ==
  [][\A s \in SockIds, name \in PresenceNames, data \in PresenceData :
       data.presence /\ IndexOf(channels, name) # 0
         /\ name \in sockets[s].acks /\ name \notin sockets'[s].acks
         /\ RecvPresenceSucceeded(s, name, data)
       => /\ Entries(members', objects')
               = {[key |-> data.hash[i].id, id |-> data.hash[i].id,
                   info |-> data.hash[i].info] : i \in DOMAIN data.hash}
          /\ data.me # "" => myId' = data.me
          /\ Subscribed(name)']_vars

\* hydrated after a reconnect: the channel is subscribed again
C30_Witness ==
  /\ \E name \in PresenceNames : Subscribed(name)
  /\ Entries(members, objects) = {[key |-> "u2", id |-> "u2", info |-> "b"]}
  /\ myId = "u1"
  /\ emitted.event = "subscription_succeeded"

\* C23: channel events reach the channel listeners in the order in which
\* their frames were received, whatever mix of text frames, ArrayBuffer
\* frames and Blob frames the transport delivers.
C23_DispatchInOrder ==
  \A i, j \in DOMAIN dispatched : i < j => dispatched[i] < dispatched[j]

\* the step in which the decoder has failed on frame f: the message event
\* itself for a string or an ArrayBuffer, the end of arrayBuffer() for a Blob
DecodeFailed(f) ==
  /\ ~f.ok
  /\ \/ f.kind # "blob" /\ \E s \in SockIds : RecvFrame(s, f)
     \/ BlobDecoded(f)

\* C24: the step in which an inbound frame fails to decode emits an error
\* event to the error listeners of the client.
C24_DecodeErrorEmitted ==
  [][\A f \in Inbound : DecodeFailed(f) => errors' # errors]_vars

\* C29: the step in which an inbound frame fails to decode changes neither
\* the connection state, the socket id, the reconnection counter, the
\* registry nor a subscribed flag, closes no transport and hands nothing
\* to channel or global listeners.
C29_DecodeFailureLeavesConnection ==
  [][\A f \in Inbound : DecodeFailed(f) =>
       /\ state' = state
       /\ socketId' = socketId
       /\ reconnectAttempts' = reconnectAttempts
       /\ channels' = channels
       /\ ws' = ws
       /\ sockets' = sockets
       /\ closing' = closing
       /\ emitted' = emitted
       /\ dispatched' = dispatched]_vars

\* a frame of a subscribed channel was received on the first connection
\* and nothing was dispatched
C29_Witness ==
  /\ state = "connected"
  /\ Subscribed("news")
  /\ received = 1
  /\ decoding = {}
  /\ dispatched = <<>>
  /\ errors = 0
  /\ closing = 0

\* C25: encoding and then decoding loses nothing.  A message created with
\* type 0x01 from a JSON value decodes to that value; a message created
\* with type 0x02 from a metadata object and a byte sequence decodes to an
\* object with the properties of the metadata and a property binaryData
\* that holds exactly those bytes.
C25_RoundTrip ==
  call.stage = "decoded" =>
    /\ call.result.ok
    /\ call.messageType = 1 => call.result.value = call.payload
    /\ call.messageType = 2 =>
         /\ call.result.value.type = "object"
         /\ DOMAIN call.result.value.fields
              = DOMAIN call.payload.metadata.fields \cup {"binaryData"}
         /\ call.result.value.fields["binaryData"] = call.payload.binaryData
         /\ \A k \in DOMAIN call.payload.metadata.fields :
              call.result.value.fields[k] = call.payload.metadata.fields[k]

\* a message of type 0x02 with metadata and two bytes was decoded
C25_Witness ==
  /\ call.stage = "decoded"
  /\ call.messageType = 2
  /\ call.by = "parseBinaryMessage"
  /\ call.payload.binaryData = <<0, 255>>
  /\ DOMAIN call.payload.metadata.fields = {"a"}
  /\ call.result.ok

\* the bytes are JSON text as a whole
IsJsonText(bytes) == JSONparse(trim(decode(bytes))).ok

\* the header of a frame declares more payload bytes than follow it
PayloadTruncated(bytes) ==
  Len(bytes) >= 8 /\ ~IsJsonText(bytes) /\ getUint32(bytes, 4) > Len(bytes) - 8

\* a complete 0x02 payload declares more metadata bytes than it holds
MetadataTruncated(bytes) ==
  /\ Len(bytes) >= 8
  /\ getUint32(bytes, 0) = 2
  /\ getUint32(bytes, 4) >= 4
  /\ getUint32(bytes, 4) <= Len(bytes) - 8
  /\ getUint32(bytes, 8) > getUint32(bytes, 4) - 4

IdentifiesTruncation(result) ==
  /\ ~result.ok
  /\ \E i \in DOMAIN result.error :
       result.error[i] \in {"Binary message payload truncated",
                            "Binary payload metadata truncated"}

\* C26: decoding a frame whose header declares more payload than is there,
\* or a 0x02 payload that declares more metadata than is there, raises an
\* error whose message tells of the truncation, and returns no data.
C26_TruncationReported ==
  call.stage = "parsed" /\ (PayloadTruncated(call.bytes) \/ MetadataTruncated(call.bytes))
    => IdentifiesTruncation(call.result)

\* C27: a frame that is not JSON text is decoded to a message only if its
\* header has a message type of 0x01, 0x02 or 0x03 and a payload length
\* that is positive and not beyond the bytes that follow; every other
\* frame raises an error.
C27_OnlyKnownTypesAccepted ==
  call.stage = "parsed" /\ ~IsJsonText(call.bytes) /\ call.result.ok
    => /\ Len(call.bytes) >= 8
       /\ getUint32(call.bytes, 0) \in {1, 2, 3}
       /\ getUint32(call.bytes, 4) > 0
       /\ getUint32(call.bytes, 4) <= Len(call.bytes) - 8

\* what the contract calls invalid arguments of an authorization
OutsideCharset(channelName) ==
  \E i \in DOMAIN channelName : channelName[i] \notin ChannelChars

InvalidArguments(sid, channelName, userData) ==
  \/ OutsideCharset(channelName)
  \/ Len(channelName) > MaxChannelNameLength
  \/ ~socketIdPattern(sid)
  \/ startsWith(channelName, PresencePrefix) /\ ~HasUserId(userData)

\* C28: a publisher-side authorization of a channel name outside the allowed
\* charset or longer than 200 characters, of a connection id of invalid shape,
\* or of a presence channel whose userData lacks user_id is rejected: it never
\* goes on to the signature or to the request.
C28_InvalidArgumentsRejected ==
  call.stage = "authorized"
    /\ InvalidArguments(call.socketId, call.channelName, call.userData)
    => ~call.result.ok

\* C31: the state-change notifications form a chain: the first has previous =
\* disconnected, each later one has previous = the current of the one before
\* it, none has current = previous, and the connection state is the current
\* of the last one (disconnected before the first), so that every change of
\* the state is notified once and an assignment of the same state is not.
C31_NotificationChain ==
  notified.on =>
    /\ \A i \in DOMAIN notified.notes :
         /\ notified.notes[i].previous =
              IF i > 1 THEN notified.notes[i - 1].current
              ELSE IF notified.last = "" THEN "disconnected" ELSE notified.last
         /\ notified.notes[i].current # notified.notes[i].previous
    /\ state = IF ChainEnd(notified) = "" THEN "disconnected" ELSE ChainEnd(notified)

\* a handler that changed the state twice, after earlier notifications
C31_Witness ==
  /\ notified.on
  /\ notified.last # ""
  /\ Len(notified.notes) = 2

\* C32: a dispatch of an event on a channel invokes the listeners bound to
\* the event name in the order of the bind() calls, once for each bind() call
\* in force, whether or not a listener before them throws.
C32_ListenersInBindingOrder ==
  [][\A event \in EventNames :
       Dispatch(event) => call'.invoked = call.bound[event]]_vars

\* C33: a client whose every reconnection attempt reaches connected never
\* enters failed, however often the transport drops afterwards and whether
\* or not a channel is registered or acknowledged.
C33_SuccessfulReconnectsNeverFail == state # "failed"

\* C34: when the authorization call of a channel succeeds after the channel
\* was unsubscribed, and subscribe() has not registered the name again, no
\* subscribe frame is written or queued.
C34_NoSubscribeAfterUnsubscribe ==
  [][\A a \in AuthCalls :
       (~Registered(a.channel) /\ AuthOk(a)) => Frames' = Frames]_vars

\* C35: the close event of a transport the client closed itself, handled
\* while the connection refers to a newer transport, leaves that reference
\* and the connection state as they are and schedules no reconnection.
C35_StaleCloseIgnored ==
  [][(ws # 0 /\ SockClosed)
       => /\ ws' = ws
          /\ state' = state
          /\ ScheduledReconnects' = ScheduledReconnects]_vars

\* C36: unsubscribe(name) for a channel whose subscribe frame the current
\* connection has carried, acknowledged or not, writes an unsubscribe frame
\* to that connection: afterwards the server holds no subscription for the
\* channel on it.
C36_UnsubscribeReachesServer ==
  [][\A name \in AllNames :
       (/\ state = "connected" /\ ws # 0
        /\ name \in sockets[ws].subs
        /\ Unsubscribe(name))
         => name \notin sockets'[ws].subs]_vars

\* C37: whenever a registered channel is marked subscribed the connection
\* state is connected.
C37_SubscribedOnlyWhileConnected ==
  (\E i \in DOMAIN channels : channels[i].subscribed) => state = "connected"

\* C38: while the state is connected the socket id is set and the connection
\* refers to a transport; while it is not, send() returns false and neither
\* queues nor writes the frame.
C38_ConnectedHasTransport ==
  /\ state = "connected" => (socketId # 0 /\ ws # 0)
  /\ state # "connected"
       => /\ ~sendResult(Cur)
          /\ \A ev \in {"ping", "subscribe", "client-event"} :
               send(Cur, Frame(ev, "news")) = Cur

\* C39: starting a request never aborts a request that is in flight, for the
\* same method and path or any other.
C39_RequestsDoNotInterfere ==
  [][\A key \in RequestKeys :
       (call.stage = "pool" /\ Request(key))
         => \A r \in call.inflight :
              r.controller \in call'.aborted => r.controller \in call.aborted]_vars

\* C40: the controller acquire() returns is never one whose signal is
\* aborted.
C40_AcquiredControllerUsable ==
  [][\A key \in RequestKeys :
       (call.stage = "pool" /\ Request(key))
         => call'.returned \notin call'.aborted]_vars

====
